---- MODULE Spec2Model ----
(***************************************************************************)
(* The authoritative room/session state machine of server.ts: the room    *)
(* map, the per-socket currentRoom field, and the socket.io handlers       *)
(* join_room, join_puzzle_room, make_move, puzzle_move and disconnect,     *)
(* together with the helpers they call.  Every handler runs to completion, *)
(* so each is one action.  The solo puzzle game of BlockPuzzleGame.tsx is  *)
(* a second machine: the state of the React component, its pointer         *)
(* handlers and its timers.  The server and the component share nothing.   *)
(***************************************************************************)
EXTENDS Integers, Sequences, FiniteSets, TLC

VARIABLES rooms, currentRoom, emitted, component, call

vars == <<rooms, currentRoom, emitted, component, call>>

\* no React component is mounted: the server runs on its own
Unmounted == [name |-> "none"]

\* no function is being applied on its own
NoCall == [fn |-> "none"]

\* the sockets whose connection is open: a socket object, and its currentRoom
\* field, exists from 'connection' to 'disconnect'
connected == DOMAIN currentRoom

----------------------------------------------------------------------------
(* Bounds of the model *)

\* number of client connections (socket ids 1..NumSockets)
NumSockets == 3
\* number of distinct roomId strings the clients send (1..NumRooms)
NumRooms == 1
\* how many entries of MoveOrder the clients use as (row, col) payloads
NumMoveCells == 4
\* how many entries of the shape catalog getRandomShapes draws from
NumShapes == 1

Sockets == 1..NumSockets
RoomIds == 1..NumRooms

\* (socket as any).currentRoom = null
Null == 0

\* (row, col) payloads of make_move, in the order they are added to the model
MoveOrder ==
    << <<2, 3>>, <<1, 2>>, <<5, 5>>, <<0, 1>>, <<0, 0>>, <<2, 2>>, <<4, 5>> >>

MoveCells == {MoveOrder[i] : i \in 1..NumMoveCells}

----------------------------------------------------------------------------
(* Othello helpers *)

directions ==
    << <<-1, -1>>, <<-1, 0>>, <<-1, 1>>, <<0, -1>>,
       <<0, 1>>, <<1, -1>>, <<1, 0>>, <<1, 1>> >>

\* Opponent that hands the turn back to the same colour
Opponent_Same(color) == color

Opponent(color) == IF color = "black" THEN "white" ELSE "black"

InBoard(r, c) == r >= 0 /\ r < 8 /\ c >= 0 /\ c < 8

\* the while loop of hasValidMoves / make_move: number of opponent cells
\* walked from (r, c) in direction (dr, dc)
RECURSIVE RunLength(_, _, _, _, _, _)
RunLength(board, r, c, dr, dc, opponent) ==
    IF InBoard(r, c) /\ board[r][c] = opponent
    THEN 1 + RunLength(board, r + dr, c + dc, dr, dc, opponent)
    ELSE 0

\* Brackets without the foundOpponent flag: an empty run counts
Brackets_EmptyRun(board, r, c, d, color) ==
    LET n  == RunLength(board, r + d[1], c + d[2], d[1], d[2], Opponent(color))
        er == r + (n + 1) * d[1]
        ec == c + (n + 1) * d[2]
    IN  InBoard(er, ec) /\ board[er][ec] = color

\* the test after the while loop: the run is non-empty and ends on `color`
Brackets(board, r, c, d, color) ==
    LET n  == RunLength(board, r + d[1], c + d[2], d[1], d[2], Opponent(color))
        er == r + (n + 1) * d[1]
        ec == c + (n + 1) * d[2]
    IN  n > 0 /\ InBoard(er, ec) /\ board[er][ec] = color

\* hasValidMoves without the test for an Empty cell
hasValidMoves_AnyCell(board, color) ==
    \E r \in 0..7, c \in 0..7, i \in 1..8 : Brackets(board, r, c, directions[i], color)

hasValidMoves(board, color) ==
    \E r \in 0..7, c \in 0..7 :
        /\ board[r][c] = "null"
        /\ \E i \in 1..8 : Brackets(board, r, c, directions[i], color)

RECURSIVE CountCells(_, _, _)
CountCells(board, color, k) ==
    IF k = 64 THEN 0
    ELSE (IF board[k \div 8][k % 8] = color THEN 1 ELSE 0)
         + CountCells(board, color, k + 1)

countScore(board) ==
    [black |-> CountCells(board, "black", 0),
     white |-> CountCells(board, "white", 0)]

\* the initial Othello board of join_room
StartBoard ==
    [r \in 0..7 |-> [c \in 0..7 |->
        IF (r = 3 /\ c = 3) \/ (r = 4 /\ c = 4) THEN "white"
        ELSE IF (r = 3 /\ c = 4) \/ (r = 4 /\ c = 3) THEN "black"
        ELSE "null"]]

\* FlipDirection that leaves the cell next to (row, col) as it is
FlipDirection_KeepsNearest(board, row, col, d, color) ==
    LET n == RunLength(board, row + d[1], col + d[2], d[1], d[2], Opponent(color))
    IN  IF Brackets(board, row, col, d, color)
        THEN [r \in 0..7 |-> [c \in 0..7 |->
                IF \E k \in 2..n : r = row + k * d[1] /\ c = col + k * d[2]
                THEN color ELSE board[r][c]]]
        ELSE board

\* one iteration of the direction loop of make_move
FlipDirection(board, row, col, d, color) ==
    LET n == RunLength(board, row + d[1], col + d[2], d[1], d[2], Opponent(color))
    IN  IF Brackets(board, row, col, d, color)
        THEN [r \in 0..7 |-> [c \in 0..7 |->
                IF \E k \in 1..n : r = row + k * d[1] /\ c = col + k * d[2]
                THEN color ELSE board[r][c]]]
        ELSE board

\* the direction loop of make_move, directions i..8 in order
RECURSIVE FlipFrom(_, _, _, _, _)
FlipFrom(board, row, col, color, i) ==
    IF i > 8 THEN board
    ELSE FlipFrom(FlipDirection(board, row, col, directions[i], color),
                  row, col, color, i + 1)

\* PlaceAndFlip without the direction loop
PlaceAndFlip_NoFlip(board, row, col, color) ==
    [board EXCEPT ![row][col] = color]

\* room.board[row][col] = color followed by the direction loop
PlaceAndFlip(board, row, col, color) ==
    FlipFrom([board EXCEPT ![row][col] = color], row, col, color, 1)

----------------------------------------------------------------------------
(* Puzzle helpers *)

\* ids of PUZZLE_SHAPES in catalog order
ShapeOrder == << "I2", "I2_V", "I3" >>

ShapeIds == {ShapeOrder[i] : i \in 1..NumShapes}

\* getRandomShapes(3): any three catalog entries
getRandomShapes == [1..3 -> ShapeIds]

EmptyPuzzleBoard == [r \in 0..9 |-> [c \in 0..9 |-> "null"]]

\* shape.matrix of the catalog entries the model uses
Matrix(id) ==
    CASE id = "I2"   -> << <<1, 1>> >>
      [] id = "I2_V" -> << <<1>>, <<1>> >>
      [] id = "I3"   -> << <<1, 1, 1>> >>
      [] id = "SQR3" -> << <<1, 1, 1>>, <<1, 1, 1>>, <<1, 1, 1>> >>
      [] id = "I4"   -> << <<1, 1, 1, 1>> >>
      [] id = "SQR2" -> << <<1, 1>>, <<1, 1>> >>
      [] id = "L3"   -> << <<1, 0>>, <<1, 1>> >>
      [] id = "T3_U" -> << <<0, 1, 0>>, <<1, 1, 1>> >>

\* the filled cells of a matrix, as (i, j) offsets from its top left corner
Filled(matrix) ==
    {x \in (0..(Len(matrix) - 1)) \X (0..(Len(matrix[1]) - 1)) :
        matrix[x[1] + 1][x[2] + 1] = 1}

\* canPlace that tests every cell of the bounding box, filled or not
canPlace_BoundingBox(grid, matrix, r, c) ==
    \A i \in 0..(Len(matrix) - 1), j \in 0..(Len(matrix[1]) - 1) :
        /\ ~(r + i < 0 \/ r + i >= 10 \/ c + j < 0 \/ c + j >= 10)
        /\ grid[r + i][c + j] = "null"

\* canPlace without the test of the grid: only the bounds count
canPlace_IgnoresGrid(grid, matrix, r, c) ==
    \A x \in Filled(matrix) :
        LET nr == r + x[1]
            nc == c + x[2]
        IN  ~(nr < 0 \/ nr >= 10 \/ nc < 0 \/ nc >= 10)

canPlace(grid, matrix, r, c) ==
    \A x \in Filled(matrix) :
        LET nr == r + x[1]
            nc == c + x[2]
        IN  /\ ~(nr < 0 \/ nr >= 10 \/ nc < 0 \/ nc >= 10)
            /\ grid[nr][nc] = "null"

\* hasAnyValidMove that never reports a stuck hand
hasAnyValidMove_Always(grid, hand) == TRUE

hasAnyValidMove(grid, hand) ==
    \E i \in 1..Len(hand) :
        /\ hand[i] # "null"
        /\ \E r \in 0..9, c \in 0..9 : canPlace(grid, Matrix(hand[i]), r, c)

----------------------------------------------------------------------------
(* The Othello client: getValidMoves of OthelloGame.tsx *)

\* isValid of the cell (r, c): the cell is null and, for some direction, the
\* while loop passes at least one opponent cell and stops inside the board
\* on a cell of player
isValid(currentBoard, player, r, c) ==
    /\ currentBoard[r][c] = "null"
    /\ \E i \in 1..8 :
          LET dr == directions[i][1]
              dc == directions[i][2]
              n  == RunLength(currentBoard, r + dr, c + dc, dr, dc, Opponent(player))
              nr == r + (n + 1) * dr
              nc == c + (n + 1) * dc
          IN  n > 0 /\ InBoard(nr, nc) /\ currentBoard[nr][nc] = player

\* the moves pushed from cell number k on, rows before columns
RECURSIVE movesFrom(_, _, _)
movesFrom(currentBoard, player, k) ==
    IF k = 64 THEN <<>>
    ELSE (IF isValid(currentBoard, player, k \div 8, k % 8)
          THEN << [r |-> k \div 8, c |-> k % 8] >> ELSE <<>>)
         \o movesFrom(currentBoard, player, k + 1)

getValidMoves(currentBoard, player) == movesFrom(currentBoard, player, 0)

----------------------------------------------------------------------------
(* Transport *)

\* sockets that io.to(roomId) reaches: socket.join(roomId) is always preceded
\* by socket.leave(currentRoom), and a disconnected socket is in no room
Subscribers(roomId, cr) == {s \in DOMAIN cr : cr[s] = roomId}

Msg(to, ev, data) == [to |-> to, ev |-> ev, data |-> data]

----------------------------------------------------------------------------
(* Initial state: the sockets are connected, no room exists *)

Init ==
    /\ rooms = <<>>
    /\ currentRoom = [s \in Sockets |-> Null]
    /\ emitted = <<>>
    /\ component = Unmounted
    /\ call = NoCall

Exists(roomId) == roomId \in DOMAIN rooms

\* rooms[roomId] = room
SetRoom(roomId, room) ==
    [id \in DOMAIN rooms \cup {roomId} |-> IF id = roomId THEN room ELSE rooms[id]]

\* DeleteRoom that deletes nothing
DeleteRoom_Keeps(rs, roomId) == rs

\* delete rooms[roomId]
DeleteRoom(rs, roomId) == [id \in DOMAIN rs \ {roomId} |-> rs[id]]

NewOthelloRoom ==
    [type |-> "OTHELLO", board |-> StartBoard, turn |-> "black",
     players |-> <<>>, status |-> "WAITING"]

NewPuzzleRoom(black, white) ==
    [type |-> "PUZZLE", board |-> EmptyPuzzleBoard, turn |-> "black",
     players |-> <<>>, status |-> "WAITING",
     hands |-> [black |-> black, white |-> white],
     scores |-> [black |-> 0, white |-> 0]]

Player(s, color) == [id |-> s, name |-> "Player", color |-> color]

\* WrongKind with the check of room.type left out
WrongKind_Unchecked(room, kind) == FALSE

\* room.type !== 'OTHELLO' / room.type !== 'PUZZLE'
WrongKind(room, kind) == room.type # kind

\* RoomFull with > for >=
RoomFull_OffByOne(room) == Len(room.players) > 2

\* room.players.length >= 2
RoomFull(room) == Len(room.players) >= 2

\* SeatColor with the two colours swapped
SeatColor_Swapped(room) == IF Len(room.players) = 0 THEN "white" ELSE "black"

\* room.players.length === 0 ? 'black' : 'white'
SeatColor(room) == IF Len(room.players) = 0 THEN "black" ELSE "white"

\* "Refill hands just in case": a hand of length 0 is dealt again
StartHands(hands) ==
    {[black |-> b, white |-> w] :
        b \in (IF Len(hands.black) = 0 THEN getRandomShapes ELSE {hands.black}),
        w \in (IF Len(hands.white) = 0 THEN getRandomShapes ELSE {hands.white})}

\* room.status = 'PLAYING'; if (room.hands) { ... }
Started(room) ==
    IF "hands" \in DOMAIN room
    THEN {[room EXCEPT !.status = "PLAYING", !.hands = h] :
             h \in StartHands(room.hands)}
    ELSE {[room EXCEPT !.status = "PLAYING"]}

join_room(s, roomId) ==
    /\ s \in connected
    /\ UNCHANGED <<component, call>>
    /\ currentRoom' = [currentRoom EXCEPT ![s] = roomId]
    /\ LET room == IF Exists(roomId) THEN rooms[roomId] ELSE NewOthelloRoom
       IN  IF WrongKind(room, "OTHELLO")
           THEN /\ rooms' = SetRoom(roomId, room)
                /\ emitted' = << Msg({s}, "error_message",
                                     "Room exists but is not for Othello!") >>
           ELSE IF RoomFull(room)
           THEN /\ rooms' = SetRoom(roomId, room)
                /\ emitted' = << Msg({s}, "error_message", "Room is full!") >>
           ELSE LET color   == SeatColor(room)
                    players == Append(room.players, Player(s, color))
                IN  IF Len(players) = 1
                    THEN /\ rooms' = SetRoom(roomId, [room EXCEPT !.players = players])
                         /\ emitted' = << Msg({s}, "init_game", color),
                                          Msg({s}, "waiting_opponent", "") >>
                    ELSE /\ rooms' = SetRoom(roomId,
                                        [room EXCEPT !.players = players,
                                                     !.status = "PLAYING"])
                         /\ emitted' = << Msg({s}, "init_game", color),
                                          Msg(Subscribers(roomId, currentRoom'),
                                              "game_start", room.turn) >>

join_puzzle_room(s, roomId) ==
    /\ s \in connected
    /\ UNCHANGED <<component, call>>
    /\ currentRoom' = [currentRoom EXCEPT ![s] = roomId]
    /\ \E black \in getRandomShapes, white \in getRandomShapes :
        LET room == IF Exists(roomId) THEN rooms[roomId]
                    ELSE NewPuzzleRoom(black, white)
        IN  IF WrongKind(room, "PUZZLE")
            THEN /\ rooms' = SetRoom(roomId, room)
                 /\ emitted' = << Msg({s}, "error_message",
                                      "Room exists but is not for Block Puzzle!") >>
            ELSE IF RoomFull(room)
            THEN /\ rooms' = SetRoom(roomId, room)
                 /\ emitted' = << Msg({s}, "error_message", "Room is full!") >>
            ELSE LET color   == SeatColor(room)
                     players == Append(room.players, Player(s, color))
                 IN  IF Len(players) = 1
                     THEN /\ rooms' = SetRoom(roomId, [room EXCEPT !.players = players])
                          /\ emitted' = << Msg({s}, "init_puzzle_game", color),
                                           Msg({s}, "waiting_opponent", "") >>
                     ELSE \E started \in Started([room EXCEPT !.players = players]) :
                          /\ rooms' = SetRoom(roomId, started)
                          /\ emitted' = << Msg({s}, "init_puzzle_game", color),
                                           Msg(Subscribers(roomId, currentRoom'),
                                               "puzzle_start", room.turn) >>

\* !room || room.status !== 'PLAYING' || room.type !== 'OTHELLO'
MoveIgnored(rs, roomId) ==
    \/ roomId \notin DOMAIN rs
    \/ rs[roomId].status # "PLAYING"
    \/ rs[roomId].type # "OTHELLO"

\* room.board[row] is undefined when row is no index of the board: reading
\* [col] of it throws a TypeError, which nothing in the handler catches
Throws(board, row) == row \notin DOMAIN board

\* CellTaken without the test: every cell counts as free
CellTaken_Never(board, row, col) == FALSE

\* room.board[row][col] !== null (undefined !== null when col is no index)
CellTaken(board, row, col) ==
    col \notin DOMAIN board[row] \/ board[row][col] # "null"

\* which branch the turn resolution of make_move takes on the new board
Resolution(board, color) ==
    LET nextCanMove    == hasValidMoves(board, Opponent(color))
        currentCanMove == hasValidMoves(board, color)
    IN  IF nextCanMove THEN "next"
        ELSE IF currentCanMove THEN "pass"
        ELSE "over"

\* Winner without the 'draw' default: equal counts go to Black
Winner_NoDraw(scores) ==
    IF scores.white > scores.black THEN "white" ELSE "black"

\* let winner = 'draw'; if (black > white) ...; if (white > black) ...
Winner(scores) ==
    IF scores.white > scores.black THEN "white"
    ELSE IF scores.black > scores.white THEN "black"
    ELSE "draw"

make_move(s, roomId, row, col) ==
    /\ s \in connected
    /\ UNCHANGED <<currentRoom, component, call>>
    /\ IF MoveIgnored(rooms, roomId)
       THEN /\ UNCHANGED rooms
            /\ emitted' = <<>>
       ELSE LET room     == rooms[roomId]
                color    == room.turn
                opponent == Opponent(color)
                board    == PlaceAndFlip(room.board, row, col, color)
                subs     == Subscribers(roomId, currentRoom)
                outcome  == Resolution(board, color)
                scores   == countScore(board)
            IN  IF Throws(room.board, row)
                THEN /\ UNCHANGED rooms
                     /\ emitted' = << Msg({}, "uncaughtException", "TypeError") >>
                ELSE IF CellTaken(room.board, row, col)
                THEN /\ UNCHANGED rooms
                     /\ emitted' = <<>>
                ELSE IF outcome = "next"
                THEN /\ rooms' = [rooms EXCEPT ![roomId].board = board,
                                               ![roomId].turn = opponent]
                     /\ emitted' = << Msg(subs, "update_board", opponent) >>
                ELSE IF outcome = "pass"
                THEN /\ rooms' = [rooms EXCEPT ![roomId].board = board]
                     /\ emitted' = << Msg(subs, "update_board", color),
                                      Msg(subs, "notification", opponent) >>
                ELSE /\ rooms' = [rooms EXCEPT ![roomId].board = board,
                                               ![roomId].status = "FINISHED"]
                     /\ emitted' = << Msg(subs, "game_over",
                                          [winner |-> Winner(scores),
                                           blackScore |-> scores.black,
                                           whiteScore |-> scores.white]) >>

\* PuzzleMoveIgnored without the test of room.status
PuzzleMoveIgnored_AnyStatus(rs, roomId) ==
    \/ roomId \notin DOMAIN rs
    \/ rs[roomId].type # "PUZZLE"

\* !room || room.status !== 'PLAYING' || room.type !== 'PUZZLE', and
\* !room.hands || !room.scores
PuzzleMoveIgnored(rs, roomId) ==
    \/ roomId \notin DOMAIN rs
    \/ rs[roomId].status # "PLAYING"
    \/ rs[roomId].type # "PUZZLE"
    \/ "hands" \notin DOMAIN rs[roomId]
    \/ "scores" \notin DOMAIN rs[roomId]

\* !shape, for shape = hand[shapeIndex]: the slot holds null, or shapeIndex is
\* no index of the hand (undefined)
NoShape(hand, shapeIndex) ==
    (shapeIndex + 1) \notin DOMAIN hand \/ hand[shapeIndex + 1] = "null"

\* "Place shape": the filled cells of the matrix take the mover's colour
Placed(board, matrix, row, col, color) ==
    LET cells == Filled(matrix)
    IN  [r \in 0..9 |-> [c \in 0..9 |->
            IF <<r - row, c - col>> \in cells THEN color ELSE board[r][c]]]

rowsToClear(board) == {r \in 0..9 : \A c \in 0..9 : board[r][c] # "null"}

colsToClear(board) == {c \in 0..9 : \A r \in 0..9 : board[r][c] # "null"}

\* Cleared that clears the full columns and leaves the full rows
Cleared_ColsOnly(board) ==
    [r \in 0..9 |-> [c \in 0..9 |->
        IF c \in colsToClear(board) THEN "null" ELSE board[r][c]]]

\* "Clear lines"
Cleared(board) ==
    LET rows == rowsToClear(board)
        cols == colsToClear(board)
    IN  [r \in 0..9 |-> [c \in 0..9 |->
            IF r \in rows \/ c \in cols THEN "null" ELSE board[r][c]]]

\* moveScore without the placement score: only cleared lines count
moveScore_LinesOnly(board, matrix) ==
    100 * (Cardinality(rowsToClear(board)) + Cardinality(colsToClear(board)))

\* placementScore plus totalLines * 100 ("Simplified scoring")
moveScore(board, matrix) ==
    LET totalLines == Cardinality(rowsToClear(board)) + Cardinality(colsToClear(board))
    IN  Cardinality(Filled(matrix)) + (IF totalLines > 0 THEN totalLines * 100 ELSE 0)

\* Refilled that deals three new shapes after every placement
Refilled_Always(hand) == getRandomShapes

\* "Refill hand if empty": three new shapes once every slot is null
Refilled(hand) ==
    IF \A i \in 1..Len(hand) : hand[i] = "null" THEN getRandomShapes ELSE {hand}

puzzle_move(s, roomId, shapeIndex, row, col) ==
    /\ s \in connected
    /\ UNCHANGED <<currentRoom, component, call>>
    /\ IF PuzzleMoveIgnored(rooms, roomId)
       THEN /\ UNCHANGED rooms
            /\ emitted' = <<>>
       ELSE LET room   == rooms[roomId]
                color  == room.turn
                hand   == room.hands[color]
            IN  IF NoShape(hand, shapeIndex)
                THEN /\ UNCHANGED rooms
                     /\ emitted' = <<>>
                ELSE IF ~canPlace(room.board, Matrix(hand[shapeIndex + 1]), row, col)
                THEN /\ UNCHANGED rooms
                     /\ emitted' = <<>>
                ELSE LET matrix   == Matrix(hand[shapeIndex + 1])
                         placed   == Placed(room.board, matrix, row, col, color)
                         board    == Cleared(placed)
                         scores   == [room.scores EXCEPT
                                         ![color] = @ + moveScore(placed, matrix)]
                         used     == [hand EXCEPT ![shapeIndex + 1] = "null"]
                         nextTurn == Opponent(color)
                         subs     == Subscribers(roomId, currentRoom)
                     IN  \E newHand \in Refilled(used) :
                           LET hands == [room.hands EXCEPT ![color] = newHand]
                               next  == [room EXCEPT !.board = board,
                                                     !.scores = scores,
                                                     !.hands = hands,
                                                     !.turn = nextTurn]
                           IN  IF ~hasAnyValidMove(board, hands[nextTurn])
                               THEN /\ rooms' = [rooms EXCEPT ![roomId] =
                                                    [next EXCEPT !.status = "FINISHED"]]
                                    /\ emitted' = << Msg(subs, "puzzle_game_over",
                                                         [winner |-> color,
                                                          reason |-> "no_moves"]) >>
                               ELSE /\ rooms' = [rooms EXCEPT ![roomId] = next]
                                    /\ emitted' = << Msg(subs, "update_puzzle_state",
                                                         nextTurn) >>

\* roomId && rooms[roomId]
Cleans(s, rs) == currentRoom[s] # Null /\ currentRoom[s] \in DOMAIN rs

\* Remaining without the filter
Remaining_KeepsAll(players, s) == players

\* room.players.filter(p => p.id !== socket.id)
Remaining(players, s) == SelectSeq(players, LAMBDA p : p.id # s)

disconnect(s) ==
    /\ s \in connected
    /\ UNCHANGED <<component, call>>
    /\ currentRoom' = [x \in connected \ {s} |-> currentRoom[x]]
    /\ IF Cleans(s, rooms)
       THEN LET roomId  == currentRoom[s]
                room    == rooms[roomId]
                players == Remaining(room.players, s)
                status  == IF room.status = "PLAYING" THEN "ABORTED"
                           ELSE room.status
                rs      == [rooms EXCEPT ![roomId].players = players,
                                         ![roomId].status = status]
            IN  /\ rooms' = IF Len(players) = 0 THEN DeleteRoom(rs, roomId) ELSE rs
                /\ emitted' = IF room.status = "PLAYING"
                              THEN << Msg(Subscribers(roomId, currentRoom'),
                                          "player_left", "") >>
                              ELSE <<>>
       ELSE /\ UNCHANGED rooms
            /\ emitted' = <<>>

Next ==
    \/ \E s \in Sockets, roomId \in RoomIds : join_room(s, roomId)
    \/ \E s \in Sockets, roomId \in RoomIds : join_puzzle_room(s, roomId)
    \/ \E s \in Sockets, roomId \in RoomIds, cell \in MoveCells :
          make_move(s, roomId, cell[1], cell[2])
    \/ \E s \in Sockets : disconnect(s)

Spec == Init /\ [][Next]_vars

----------------------------------------------------------------------------
(* Games in progress.  SpecGame follows the moves of one Othello room from  *)
(* two positions of a game between sockets 1 and 2: the position right     *)
(* after the second join_room, and the position after the 57 legal moves   *)
(* (2,3) (2,2) (5,4) (5,5) (5,6) (2,4) (4,5) (5,3) (4,2) (3,1) (6,3) (4,6)  *)
(* (3,2) (6,2) (1,4) (5,7) (4,7) (0,4) (4,1) (7,2) (6,5) (5,1) (5,0) (1,3)  *)
(* (7,3) (3,5) (2,0) (6,7) (2,6) (6,4) (3,7) (6,6) (1,5) (5,2) (0,2) (1,6)  *)
(* (1,7) (2,5) (7,1) (2,1) (7,5) (0,3) (7,7) (2,7) (1,2) (0,6) (3,0) (0,7)  *)
(* (3,6) (4,0) (1,1) (0,1) (6,0) (6,1) (0,0) (1,0) (0,5), played            *)
(* alternately from Black with no pass, which leaves White to move and     *)
(* the cells (7,0), (7,4), (7,6) Empty.                                    *)

\* how many entries of GameOrder the clients use as (row, col) payloads
NumGameCells == 6

GameOrder ==
    << <<7, 0>>, <<7, 4>>, <<7, 6>>, <<2, 3>>, <<0, 1>>, <<5, 5>>,
       <<2, 4>>, <<4, 2>>, <<0, 0>> >>

GameCells == {GameOrder[i] : i \in 1..NumGameCells}

GameSockets == {1, 2}

\* rows of the board after the 57 moves: 1 Black, 2 White, 0 Empty
LateRows ==
    << <<1, 1, 1, 1, 1, 1, 2, 2>>,
       <<2, 2, 2, 2, 1, 1, 2, 2>>,
       <<2, 2, 1, 2, 2, 1, 2, 2>>,
       <<2, 2, 1, 1, 2, 1, 1, 1>>,
       <<2, 2, 1, 2, 1, 2, 1, 1>>,
       <<1, 2, 2, 1, 2, 1, 2, 1>>,
       <<1, 2, 2, 2, 1, 1, 1, 1>>,
       <<0, 1, 1, 1, 0, 1, 0, 1>> >>

LateBoard ==
    [r \in 0..7 |-> [c \in 0..7 |->
        CASE LateRows[r + 1][c + 1] = 1 -> "black"
          [] LateRows[r + 1][c + 1] = 2 -> "white"
          [] OTHER -> "null"]]

\* the room of a game between sockets 1 (Black) and 2 (White)
GameRoom(board, turn) ==
    [type |-> "OTHELLO", board |-> board, turn |-> turn,
     players |-> << Player(1, "black"), Player(2, "white") >>,
     status |-> "PLAYING"]

InitGame ==
    /\ component = Unmounted
    /\ call = NoCall
    /\ currentRoom = [s \in GameSockets |-> 1]
    /\ \/ /\ rooms = [id \in {1} |-> GameRoom(StartBoard, "black")]
          /\ emitted = << Msg({2}, "init_game", "white"),
                          Msg(GameSockets, "game_start", "black") >>
       \/ /\ rooms = [id \in {1} |-> GameRoom(LateBoard, "white")]
          /\ emitted = << Msg(GameSockets, "update_board", "white") >>

NextGame ==
    \E s \in GameSockets, cell \in GameCells : make_move(s, 1, cell[1], cell[2])

SpecGame == InitGame /\ [][NextGame]_vars

----------------------------------------------------------------------------
(* Move events of both games.  SpecMoves runs the five handlers for the     *)
(* sockets 1 and 2 and one roomId, with move payloads that include indices *)
(* outside the board and the hand.  It starts from the server with no room *)
(* or from a puzzle game between socket 1 (Black) and socket 2 (White),    *)
(* both dealt three SQR3, after Black's SQR3 at (2,2), White's at (2,7)    *)
(* and Black's at (7,2), each from the lowest occupied slot.               *)

\* number of client connections of SpecMoves
NumMoveSockets == 2
\* how many entries of OthelloInputOrder are sent as make_move payloads
NumOthelloInputs == 6
\* how many entries of PuzzleInputOrder are sent as puzzle_move payloads
NumPuzzleInputs == 8
\* a puzzle score the model does not go beyond
MaxPuzzleScore == 110

MoveSockets == 1..NumMoveSockets

\* (row, col) payloads of make_move
OthelloInputOrder ==
    << <<2, 3>>, <<8, 3>>, <<0, 1>>, <<5, 5>>, <<2, 8>>, <<-1, 3>>, <<2, -1>> >>

OthelloInputs == {OthelloInputOrder[i] : i \in 1..NumOthelloInputs}

\* (shapeIndex, row, col) payloads of puzzle_move
PuzzleInputOrder ==
    << <<0, 0, 0>>, <<1, 0, 2>>, <<2, 0, 4>>, <<0, 0, 6>>, <<1, 0, 8>>,
       <<1, 7, 7>>, <<3, 0, 0>>, <<0, 10, 0>>, <<-1, 0, 0>>, <<0, 0, 9>> >>

PuzzleInputs == {PuzzleInputOrder[i] : i \in 1..NumPuzzleInputs}

\* the board after SQR3 at (2,2) and (7,2) by Black and at (2,7) by White
LatePuzzleBoard ==
    Placed(Placed(Placed(EmptyPuzzleBoard, Matrix("SQR3"), 2, 2, "black"),
                  Matrix("SQR3"), 2, 7, "white"),
           Matrix("SQR3"), 7, 2, "black")

LatePuzzleRoom ==
    [type |-> "PUZZLE", board |-> LatePuzzleBoard, turn |-> "white",
     players |-> << Player(1, "black"), Player(2, "white") >>,
     status |-> "PLAYING",
     hands |-> [black |-> << "null", "null", "SQR3" >>,
                white |-> << "null", "SQR3", "SQR3" >>],
     scores |-> [black |-> 18, white |-> 9]]

InitMoves ==
    /\ component = Unmounted
    /\ call = NoCall
    /\ \/ /\ rooms = <<>>
          /\ currentRoom = [s \in MoveSockets |-> Null]
          /\ emitted = <<>>
       \/ /\ rooms = [id \in {1} |-> LatePuzzleRoom]
          /\ currentRoom = [s \in {1, 2} |-> 1]
          /\ emitted = << Msg({1, 2}, "update_puzzle_state", "white") >>

\* no score in the room map is beyond MaxPuzzleScore
ScoresBounded(rs) ==
    \A id \in DOMAIN rs :
        "scores" \in DOMAIN rs[id] =>
            rs[id].scores.black <= MaxPuzzleScore /\ rs[id].scores.white <= MaxPuzzleScore

NextMoves ==
    \/ \E s \in MoveSockets, roomId \in RoomIds : join_room(s, roomId)
    \/ \E s \in MoveSockets, roomId \in RoomIds : join_puzzle_room(s, roomId)
    \/ \E s \in MoveSockets, roomId \in RoomIds, cell \in OthelloInputs :
          make_move(s, roomId, cell[1], cell[2])
    \/ \E s \in MoveSockets, roomId \in RoomIds, in \in PuzzleInputs :
          /\ puzzle_move(s, roomId, in[1], in[2], in[3])
          /\ ScoresBounded(rooms')
    \/ \E s \in MoveSockets : disconnect(s)

SpecMoves == InitMoves /\ [][NextMoves]_vars

----------------------------------------------------------------------------
(* A finished game and a newcomer.  SpecRestart starts from a game between *)
(* socket 1 (Black) and socket 2 (White) that is about to end, with a      *)
(* third connection that is in no room: the puzzle game of SpecMoves,      *)
(* White to move with one placement left on the board, or the Othello game *)
(* of SpecGame after its 57 moves, White to move with three Empty cells.   *)
(* It runs the five handlers.                                             *)

\* number of client connections of SpecRestart
NumRestartSockets == 3
\* how many entries of RestartInputOrder are sent as puzzle_move payloads
NumRestartInputs == 3
\* how many entries of GameOrder are sent as make_move payloads
NumRestartCells == 3

RestartSockets == 1..NumRestartSockets

\* (shapeIndex, row, col) payloads of puzzle_move
RestartInputOrder == << <<1, 7, 7>>, <<2, 7, 7>>, <<2, 0, 0>>, <<0, 7, 7>> >>

RestartInputs == {RestartInputOrder[i] : i \in 1..NumRestartInputs}

RestartCells == {GameOrder[i] : i \in 1..NumRestartCells}

InitRestart ==
    /\ component = Unmounted
    /\ call = NoCall
    /\ currentRoom = [s \in RestartSockets |-> IF s \in {1, 2} THEN 1 ELSE Null]
    /\ \/ /\ rooms = [id \in {1} |-> LatePuzzleRoom]
          /\ emitted = << Msg({1, 2}, "update_puzzle_state", "white") >>
       \/ /\ rooms = [id \in {1} |-> GameRoom(LateBoard, "white")]
          /\ emitted = << Msg({1, 2}, "update_board", "white") >>

NextRestart ==
    \/ \E s \in RestartSockets, roomId \in RoomIds : join_room(s, roomId)
    \/ \E s \in RestartSockets, roomId \in RoomIds : join_puzzle_room(s, roomId)
    \/ \E s \in RestartSockets, roomId \in RoomIds, cell \in RestartCells :
          make_move(s, roomId, cell[1], cell[2])
    \/ \E s \in RestartSockets, roomId \in RoomIds, in \in RestartInputs :
          puzzle_move(s, roomId, in[1], in[2], in[3])
    \/ \E s \in RestartSockets : disconnect(s)

SpecRestart == InitRestart /\ [][NextRestart]_vars

----------------------------------------------------------------------------
(* The solo puzzle game: helpers of BlockPuzzleGame.tsx *)

\* how many entries of SoloShapeOrder the solo game deals
NumSoloShapes == 2
\* how many entries of SoloCellOrder the pointer snaps to in SpecSolo
NumSoloCells == 4
\* a solo score SpecSolo does not go beyond
MaxSoloScore == 450
\* a combo the model does not go beyond
MaxSoloCombo == 11
\* how many clear callbacks may wait at once
MaxSoloTimers == 2
\* how many entries of SoloCellOrder the pointer snaps to in SpecSoloLate
NumLateCells == 5
\* a solo score SpecSoloLate does not go beyond
MaxLateScore == 1750

\* BASE_SCORES of the constants module, keys 1..8
BASE_SCORES == << 30, 80, 200, 500, 1000, 2000, 3500, 5000 >>

\* canPlace of BlockPuzzleGame.tsx: the board of the solo game is 8 x 8
canPlaceSolo(currentGrid, matrix, r, c) ==
    \A x \in Filled(matrix) :
        LET nr == r + x[1]
            nc == c + x[2]
        IN  /\ ~(nr < 0 \/ nr >= 8 \/ nc < 0 \/ nc >= 8)
            /\ currentGrid[nr][nc] = "null"

\* an empty 8 x 8 grid: Array(8).fill(null).map(() => Array(8).fill(null))
EmptySoloGrid == [r \in 0..7 |-> [c \in 0..7 |-> "null"]]

\* dragState === null
NoDrag == <<>>

\* hoverRow === null, hoverCol === null
NoHover == <<>>

\* the state of a mounted BlockPuzzleGame: its useState cells, and in
\* `timers` the callbacks of checkLinesAndScore that setTimeout has not run
\* yet, each with the values its closure holds.  A cell of the grid is null
\* or holds the colour of a shape; the component tests cells against null
\* only, so one value stands for every colour.
SoloGame(grid, hand, score, combo, movesSinceClear) ==
    [name |-> "BlockPuzzleGame", grid |-> grid, clearingCells |-> {},
     hand |-> hand, score |-> score, combo |-> combo,
     movesSinceClear |-> movesSinceClear, dragState |-> NoDrag, timers |-> <<>>]

\* hand.every(h => h === null)
HandEmpty(hand) == \A i \in 1..Len(hand) : hand[i] = "null"

\* the isGameOver memo
isGameOver(c) ==
    /\ ~HandEmpty(c.hand)
    /\ c.clearingCells = {}
    /\ ~\E i \in 1..Len(c.hand) :
          /\ c.hand[i] # "null"
          /\ \E r \in 0..7, col \in 0..7 :
                canPlaceSolo(c.grid, Matrix(c.hand[i]), r, col)

\* newGrid of handlePointerUp: the filled cells of the matrix take a colour
SoloPlaced(grid, matrix, row, col) ==
    [r \in 0..7 |-> [c \in 0..7 |->
        IF <<r - row, c - col>> \in Filled(matrix) THEN "filled" ELSE grid[r][c]]]

\* rowsToClear / colsToClear of checkLinesAndScore
soloRowsToClear(grid) == {r \in 0..7 : \A c \in 0..7 : grid[r][c] # "null"}

soloColsToClear(grid) == {c \in 0..7 : \A r \in 0..7 : grid[r][c] # "null"}

\* BASE_SCORES[totalLines] || (totalLines * 50)
baseLineScore(totalLines) ==
    IF totalLines \in 1..8 THEN BASE_SCORES[totalLines] ELSE totalLines * 50

\* isAllClear that never finds the grid empty
isAllClear_Never(grid, rows, cols) == FALSE

\* no filled cell of the grid lies outside the lines to clear
isAllClear(grid, rows, cols) ==
    \A r \in 0..7, c \in 0..7 :
        grid[r][c] # "null" => (r \in rows \/ c \in cols)

\* cellsToAnim
cellsToAnim(rows, cols) ==
    {x \in (0..7) \X (0..7) : x[1] \in rows \/ x[2] \in cols}

\* addedCombo that counts a clearing move once, however many lines it clears
addedCombo_One(totalLines) == 1

\* const addedCombo = totalLines
addedCombo(totalLines) == totalLines

\* limit without the wider allowance of a high combo
limit_NoShield(combo) == 2

\* limit = combo >= 10 ? 3 : 2
limit(combo) == IF combo >= 10 THEN 3 ELSE 2

\* checkLinesAndScore, called from a render whose state is c: the state the
\* setters leave, with the new callback at the end of the timer queue
checkLinesAndScore(c, currentGrid) ==
    LET rows       == soloRowsToClear(currentGrid)
        cols       == soloColsToClear(currentGrid)
        totalLines == Cardinality(rows) + Cardinality(cols)
        newCombo   == c.combo + addedCombo(totalLines)
        lineScore  == baseLineScore(totalLines) * newCombo
        bonus      == IF isAllClear(currentGrid, rows, cols) THEN 300 ELSE 0
        newMovesSinceClear == c.movesSinceClear + 1
    IN  IF totalLines > 0
        THEN [c EXCEPT !.movesSinceClear = 0,
                       !.combo = newCombo,
                       !.clearingCells = cellsToAnim(rows, cols),
                       !.timers = Append(@, [currentGrid |-> currentGrid,
                                             rows |-> rows, cols |-> cols,
                                             add |-> lineScore + bonus])]
        ELSE IF newMovesSinceClear > limit(c.combo)
        THEN [c EXCEPT !.combo = 0, !.movesSinceClear = 0]
        ELSE [c EXCEPT !.movesSinceClear = newMovesSinceClear]

Mounted == component.name = "BlockPuzzleGame"

\* pointer down on slot idx of the hand
handlePointerDown(idx) ==
    /\ Mounted
    /\ UNCHANGED <<rooms, currentRoom, emitted, call>>
    /\ IF isGameOver(component) \/ component.hand[idx + 1] = "null"
       THEN UNCHANGED component
       ELSE component' = [component EXCEPT !.dragState = <<idx, NoHover>>]

\* pointer move: the search over the 64 cells ends with no cell (the pointer
\* is further than SNAP_THRESHOLD from every cell the shape fits) or with
\* the fitting cell nearest to the pointer, here `hover`
handlePointerMove(hover) ==
    /\ Mounted
    /\ UNCHANGED <<rooms, currentRoom, emitted, call>>
    /\ IF component.dragState = NoDrag
       THEN UNCHANGED component
       ELSE LET shape == component.hand[component.dragState[1] + 1]
            IN  /\ hover # NoHover =>
                      /\ shape # "null"
                      /\ canPlaceSolo(component.grid, Matrix(shape),
                                      hover[1], hover[2])
                /\ component' = [component EXCEPT !.dragState[2] = hover]

handlePointerUp ==
    /\ Mounted
    /\ UNCHANGED <<rooms, currentRoom, emitted, call>>
    /\ IF component.dragState = NoDrag
       THEN UNCHANGED component
       ELSE LET shapeIdx == component.dragState[1]
                hover    == component.dragState[2]
                shape    == component.hand[shapeIdx + 1]
            IN  IF /\ shape # "null"
                   /\ hover # NoHover
                   /\ canPlaceSolo(component.grid, Matrix(shape), hover[1], hover[2])
                THEN LET matrix  == Matrix(shape)
                         newGrid == SoloPlaced(component.grid, matrix,
                                               hover[1], hover[2])
                         placed  == [component EXCEPT
                                       !.score = @ + Cardinality(Filled(matrix)),
                                       !.hand[shapeIdx + 1] = "null",
                                       !.grid = newGrid]
                     IN  component' = [checkLinesAndScore(placed, newGrid)
                                          EXCEPT !.dragState = NoDrag]
                ELSE component' = [component EXCEPT !.dragState = NoDrag]

\* the callback that checkLinesAndScore hands to setTimeout(..., 400): equal
\* delays run in the order they were set
clearLinesTimeout ==
    /\ Mounted
    /\ UNCHANGED <<rooms, currentRoom, emitted, call>>
    /\ component.timers # <<>>
    /\ LET t == Head(component.timers)
       IN  component' = [component EXCEPT
              !.score = @ + t.add,
              !.grid = [r \in 0..7 |-> [c \in 0..7 |->
                          IF r \in t.rows \/ c \in t.cols THEN "null"
                          ELSE t.currentGrid[r][c]]],
              !.clearingCells = {},
              !.timers = Tail(@)]

\* ids of PUZZLE_SHAPES that the solo game deals, in the order they are
\* added to the model
SoloShapeOrder == << "I4", "SQR2", "I2" >>

SoloShapeIds == {SoloShapeOrder[i] : i \in 1..NumSoloShapes}

\* getSmartShapes(grid, 3): three catalog entries, picked by a search over
\* the grid that draws on Math.random; any three may come out
getSmartShapes == [1..3 -> SoloShapeIds]

\* the timer of the refill effect: it is set while the hand is empty and no
\* cell is clearing, and reset when hand, grid or clearingCells change
refillHandTimeout ==
    /\ Mounted
    /\ UNCHANGED <<rooms, currentRoom, emitted, call>>
    /\ Len(component.hand) > 0 /\ HandEmpty(component.hand)
    /\ component.clearingCells = {}
    /\ \E newHand \in getSmartShapes : component' = [component EXCEPT !.hand = newHand]

----------------------------------------------------------------------------
(* SpecSolo runs one solo game from the freshly mounted component.         *)

\* (row, col) cells the pointer snaps to
SoloCellOrder == << <<0, 0>>, <<0, 4>>, <<1, 0>>, <<0, 6>>, <<2, 0>>, <<1, 4>> >>

SoloCells == {SoloCellOrder[i] : i \in 1..NumSoloCells}

InitSolo ==
    /\ rooms = <<>>
    /\ currentRoom = <<>>
    /\ emitted = <<>>
    /\ call = NoCall
    /\ \E hand \in getSmartShapes :
          component = SoloGame(EmptySoloGrid, hand, 0, 0, 0)

\* the counters of the component stay within the bounds of the model
SoloBounded(c) ==
    /\ c.score <= MaxSoloScore
    /\ c.combo <= MaxSoloCombo
    /\ Len(c.timers) <= MaxSoloTimers

NextSolo ==
    \/ \E idx \in 0..2 : handlePointerDown(idx)
    \/ \E hover \in SoloCells \cup {NoHover} : handlePointerMove(hover)
    \/ handlePointerUp /\ SoloBounded(component')
    \/ clearLinesTimeout /\ SoloBounded(component')
    \/ refillHandTimeout

SpecSolo == InitSolo /\ [][NextSolo]_vars

----------------------------------------------------------------------------
(* SpecSoloLate runs a solo game on from a later position: the game in     *)
(* which the hands were I4 throughout and were placed, lowest slot first,  *)
(* at (7,0), then alternately at (0,0) and (0,4) for nine completed rows.  *)
(* That is 4 + 9 x 8 points for the 19 placements and 30 x (1 + .. + 9)     *)
(* for the rows, combo 9, and the seventh hand with its first slot used.   *)
(* Row 7 keeps its four cells, so no clear of this game empties the grid.  *)

LateCells == {SoloCellOrder[i] : i \in 1..NumLateCells}

LateSoloGame ==
    SoloGame(SoloPlaced(EmptySoloGrid, Matrix("I4"), 7, 0),
             << "null", "I4", "I4" >>, 1426, 9, 0)

InitSoloLate ==
    /\ rooms = <<>>
    /\ currentRoom = <<>>
    /\ emitted = <<>>
    /\ call = NoCall
    /\ component = LateSoloGame

LateBounded(c) ==
    /\ c.score <= MaxLateScore
    /\ c.combo <= MaxSoloCombo
    /\ Len(c.timers) <= MaxSoloTimers

NextSoloLate ==
    \/ \E idx \in 0..2 : handlePointerDown(idx)
    \/ \E hover \in LateCells \cup {NoHover} : handlePointerMove(hover)
    \/ handlePointerUp /\ LateBounded(component')
    \/ clearLinesTimeout /\ LateBounded(component')
    \/ refillHandTimeout

SpecSoloLate == InitSoloLate /\ [][NextSoloLate]_vars

----------------------------------------------------------------------------
(* SpecHands is the server of SpecMoves or the solo game of SpecSolo: the   *)
(* hand is dealt and used up by puzzle_move on the server and by the       *)
(* pointer handlers and the refill effect in the solo game.                *)

InitHands == InitMoves \/ InitSolo

NextHands == NextMoves \/ NextSolo

SpecHands == InitHands /\ [][NextHands]_vars

----------------------------------------------------------------------------
(* The two canPlace functions on their own.  SpecPlace draws a grid, a      *)
(* matrix and a position and applies the function once.  The grids hold    *)
(* filled cells at any of the first NumPlaceMarks cells of PlaceMarkOrder, *)
(* the matrices are catalog entries and one matrix padded with an unfilled *)
(* column, which the functions accept like any number[][].                 *)

\* how many cells of PlaceMarkOrder may be filled in a grid
NumPlaceMarks == 3
\* how many entries of PlaceMatrixOrder are passed as matrix
NumPlaceMatrices == 5
\* how many entries of PlaceIndexOrder are passed as r and as c
NumPlaceIndices == 5

PlaceMarkOrder == << <<0, 1>>, <<1, 1>>, <<8, 8>>, <<7, 7>> >>

PlaceMarks == {PlaceMarkOrder[i] : i \in 1..NumPlaceMarks}

PlaceMatrixOrder ==
    << Matrix("L3"), Matrix("I2"), Matrix("T3_U"), << <<0, 1>> >>,
       Matrix("SQR2"), Matrix("SQR3") >>

PlaceMatrices == {PlaceMatrixOrder[i] : i \in 1..NumPlaceMatrices}

PlaceIndexOrder == << 0, -1, 7, 8, 9, 10 >>

PlaceIndices == {PlaceIndexOrder[i] : i \in 1..NumPlaceIndices}

\* the n x n grid whose filled cells are `marks`
PlaceGrid(n, marks) ==
    [r \in 0..(n - 1) |-> [c \in 0..(n - 1) |->
        IF <<r, c>> \in marks THEN "black" ELSE "null"]]

\* the 10 x 10 boards of the server and the 8 x 8 grids of the solo game
PlaceCalls ==
    {[fn |-> f[1], grid |-> PlaceGrid(f[2], marks \cap ((0..(f[2] - 1)) \X (0..(f[2] - 1)))),
      matrix |-> m, r |-> r, c |-> c, returned |-> FALSE, result |-> FALSE] :
        f \in {<<"canPlace", 10>>, <<"canPlaceSolo", 8>>},
        marks \in SUBSET PlaceMarks, m \in PlaceMatrices,
        r \in PlaceIndices, c \in PlaceIndices}

InitPlace ==
    /\ rooms = <<>>
    /\ currentRoom = <<>>
    /\ emitted = <<>>
    /\ component = Unmounted
    /\ call \in PlaceCalls

\* one application of canPlace of server.ts
ApplyCanPlace ==
    /\ call.fn = "canPlace" /\ ~call.returned
    /\ call' = [call EXCEPT !.returned = TRUE,
                            !.result = canPlace(call.grid, call.matrix, call.r, call.c)]
    /\ UNCHANGED <<rooms, currentRoom, emitted, component>>

\* one application of canPlace of BlockPuzzleGame.tsx
ApplyCanPlaceSolo ==
    /\ call.fn = "canPlaceSolo" /\ ~call.returned
    /\ call' = [call EXCEPT !.returned = TRUE,
                            !.result = canPlaceSolo(call.grid, call.matrix, call.r, call.c)]
    /\ UNCHANGED <<rooms, currentRoom, emitted, component>>

NextPlace == ApplyCanPlace \/ ApplyCanPlaceSolo

SpecPlace == InitPlace /\ [][NextPlace]_vars

----------------------------------------------------------------------------
(* Several rooms.  SpecRooms runs the two join handlers and disconnect for *)
(* NumLobbySockets connections and the roomIds 1..NumLobbyRooms.           *)

\* number of client connections of SpecRooms
NumLobbySockets == 2
\* number of roomIds the clients of SpecRooms use
NumLobbyRooms == 2

LobbySockets == 1..NumLobbySockets

LobbyRoomIds == 1..NumLobbyRooms

InitRooms ==
    /\ rooms = <<>>
    /\ currentRoom = [s \in LobbySockets |-> Null]
    /\ emitted = <<>>
    /\ component = Unmounted
    /\ call = NoCall

NextRooms ==
    \/ \E s \in LobbySockets, roomId \in LobbyRoomIds : join_room(s, roomId)
    \/ \E s \in LobbySockets, roomId \in LobbyRoomIds : join_puzzle_room(s, roomId)
    \/ \E s \in LobbySockets : disconnect(s)

SpecRooms == InitRooms /\ [][NextRooms]_vars

----------------------------------------------------------------------------
(* The handlers as functions of the server state, to run two events in     *)
(* both orders from one state.                                             *)

\* what the handlers read and write: the rooms map and socket.currentRoom
ServerState == [rooms |-> rooms, currentRoom |-> currentRoom]

\* rooms[roomId] = room on the map rs
PutRoom(rs, roomId, room) ==
    [id \in DOMAIN rs \cup {roomId} |-> IF id = roomId THEN room ELSE rs[id]]

\* the event names of the two join handlers, by the room type they serve
JoinKinds == {"OTHELLO", "PUZZLE"}

\* a join event: socket.on('join_room' | 'join_puzzle_room', {roomId})
JoinEvents == [s : LobbySockets, roomId : LobbyRoomIds, kind : JoinKinds]

\* the states join_room (kind "OTHELLO") or join_puzzle_room (kind "PUZZLE")
\* of socket e.s for e.roomId can leave behind, from the state st
Joined(st, e) ==
    LET cur     == [st.currentRoom EXCEPT ![e.s] = e.roomId]
        created == IF e.kind = "OTHELLO" THEN {NewOthelloRoom}
                   ELSE {NewPuzzleRoom(black, white) :
                            black \in getRandomShapes, white \in getRandomShapes}
        found   == IF e.roomId \in DOMAIN st.rooms THEN {st.rooms[e.roomId]}
                   ELSE created
        seated(room) ==
            LET players == Append(room.players, Player(e.s, SeatColor(room)))
            IN  IF Len(players) = 1 THEN {[room EXCEPT !.players = players]}
                ELSE IF e.kind = "OTHELLO"
                THEN {[room EXCEPT !.players = players, !.status = "PLAYING"]}
                ELSE Started([room EXCEPT !.players = players])
        left(room) ==
            IF WrongKind(room, e.kind) \/ RoomFull(room) THEN {room}
            ELSE seated(room)
    IN  {[rooms |-> PutRoom(st.rooms, e.roomId, room), currentRoom |-> cur] :
            room \in UNION {left(room) : room \in found}}

\* the state the disconnect handler of socket s leaves behind, from st
Disconnected(st, s) ==
    LET cur == [x \in DOMAIN st.currentRoom \ {s} |-> st.currentRoom[x]]
    IN  IF st.currentRoom[s] # Null /\ st.currentRoom[s] \in DOMAIN st.rooms
        THEN LET roomId  == st.currentRoom[s]
                 room    == st.rooms[roomId]
                 players == Remaining(room.players, s)
                 status  == IF room.status = "PLAYING" THEN "ABORTED"
                            ELSE room.status
                 rs      == [st.rooms EXCEPT ![roomId].players = players,
                                             ![roomId].status = status]
             IN  [rooms |-> IF Len(players) = 0 THEN DeleteRoom(rs, roomId) ELSE rs,
                  currentRoom |-> cur]
        ELSE [rooms |-> st.rooms, currentRoom |-> cur]

\* the states a join event can leave behind, from any state of sts
After(sts, e) == UNION {Joined(st, e) : st \in sts}

----------------------------------------------------------------------------

(* The networked puzzle client: BlockPuzzleOnline.tsx.  Every connection   *)
(* is the socket of one mounted component.  SpecOnline runs the join       *)
(* button, the socket event handlers of the component and its unmount      *)
(* against the server; the server handles the next event once the clients  *)
(* have handled the messages of the last one.                              *)

\* number of clients of SpecOnline
NumOnlineSockets == 3

OnlineSockets == 1..NumOnlineSockets

\* useState of one component: status 'LOBBY', myColor '', turn '', errorMsg
\* ''; heard is the last batch of server messages its handlers have run for
NewClient ==
    [status |-> "LOBBY", myColor |-> "", turn |-> "", errorMsg |-> "",
     heard |-> <<>>]

\* the socket.on(...) handler that runs for message m in a client with state c
onMessage(c, m) ==
    CASE m.ev = "init_puzzle_game" ->
             [c EXCEPT !.myColor = m.data, !.status = "WAITING", !.errorMsg = ""]
      [] m.ev = "waiting_opponent" -> [c EXCEPT !.status = "WAITING"]
      [] m.ev = "puzzle_start" -> [c EXCEPT !.turn = m.data]
      [] m.ev = "update_puzzle_state" -> [c EXCEPT !.turn = m.data]
      [] m.ev = "puzzle_game_over" -> [c EXCEPT !.status = "FINISHED"]
      [] m.ev = "player_left" ->
             [c EXCEPT !.status = "ABORTED", !.errorMsg = "Opponent disconnected."]
      [] m.ev = "error_message" -> [c EXCEPT !.errorMsg = m.data]
      [] OTHER -> c

\* the handlers run for the messages of msgs addressed to s, in order
RECURSIVE onMessages(_, _, _)
onMessages(c, s, msgs) ==
    IF msgs = <<>> THEN c
    ELSE onMessages(IF s \in Head(msgs).to THEN onMessage(c, Head(msgs)) ELSE c,
                    s, Tail(msgs))

Online == component.name = "BlockPuzzleOnline"

\* the messages of the last server event have reached every client they are
\* addressed to
Delivered ==
    \A s \in connected :
        \/ component.clients[s].heard = emitted
        \/ \A i \in 1..Len(emitted) : s \notin emitted[i].to

\* the client of socket s handles the messages of the last server event
receive(s) ==
    /\ Online
    /\ s \in connected
    /\ component.clients[s].heard # emitted
    /\ \E i \in 1..Len(emitted) : s \in emitted[i].to
    /\ component' = [component EXCEPT !.clients[s] =
                        [onMessages(@, s, emitted) EXCEPT !.heard = emitted]]
    /\ UNCHANGED <<rooms, currentRoom, emitted, call>>

\* handleJoin: the Join Game button of the lobby view emits join_puzzle_room
handleJoin(s, roomId) ==
    /\ Online
    /\ Delivered
    /\ s \in connected
    /\ component.clients[s].status = "LOBBY"
    /\ join_puzzle_room(s, roomId)

\* the cleanup of the effect: socket.disconnect() when the component unmounts
unmount(s) ==
    /\ Online
    /\ Delivered
    /\ disconnect(s)

\* the test that handleTouchStart makes before it starts a drag
canStartDrag(c) == ~(c.status # "PLAYING" \/ c.turn # c.myColor)

InitOnline ==
    /\ rooms = <<>>
    /\ currentRoom = [s \in OnlineSockets |-> Null]
    /\ emitted = <<>>
    /\ call = NoCall
    /\ component = [name |-> "BlockPuzzleOnline",
                    clients |-> [s \in OnlineSockets |-> NewClient]]

NextOnline ==
    \/ \E s \in OnlineSockets, roomId \in RoomIds : handleJoin(s, roomId)
    \/ \E s \in OnlineSockets : receive(s)
    \/ \E s \in OnlineSockets : unmount(s)

SpecOnline == InitOnline /\ [][NextOnline]_vars

----------------------------------------------------------------------------
(* hasValidMoves on its own.  SpecValid draws a board and a colour and     *)
(* applies the function once.  The boards are an 8 x 8 base position (no   *)
(* stone, the standard start, the position after the 57 moves of SpecGame, *)
(* a board full of Black stones) with the stones of any of the first       *)
(* NumValidMarks entries of ValidMarkOrder put on top.                     *)

\* how many entries of ValidMarkOrder may be put on a board
NumValidMarks == 6
\* how many entries of ValidBoardOrder are used as base position
NumValidBoards == 4

\* (row, col, colour): runs along row 0, and a run that ends at the corner
ValidMarkOrder ==
    << <<0, 1, "white">>, <<0, 2, "black">>, <<0, 0, "black">>,
       <<7, 7, "white">>, <<6, 6, "white">>, <<0, 3, "white">>,
       <<5, 5, "black">> >>

ValidMarks == {ValidMarkOrder[i] : i \in 1..NumValidMarks}

\* the 8 x 8 board with every cell in the same state
UniformBoard(cell) == [r \in 0..7 |-> [c \in 0..7 |-> cell]]

ValidBoardOrder ==
    << UniformBoard("null"), StartBoard, LateBoard, UniformBoard("black"),
       UniformBoard("white") >>

ValidBoards == {ValidBoardOrder[i] : i \in 1..NumValidBoards}

\* the base position with the stones of `marks` put on it
MarkedBoard(base, marks) ==
    [r \in 0..7 |-> [c \in 0..7 |->
        IF <<r, c, "black">> \in marks THEN "black"
        ELSE IF <<r, c, "white">> \in marks THEN "white"
        ELSE base[r][c]]]

ValidCalls ==
    {[fn |-> "hasValidMoves", board |-> MarkedBoard(base, marks), color |-> color,
      returned |-> FALSE, result |-> FALSE] :
        base \in ValidBoards, marks \in SUBSET ValidMarks,
        color \in {"black", "white"}}

InitValid ==
    /\ rooms = <<>>
    /\ currentRoom = <<>>
    /\ emitted = <<>>
    /\ component = Unmounted
    /\ call \in ValidCalls

\* one application of hasValidMoves of server.ts
ApplyHasValidMoves ==
    /\ call.fn = "hasValidMoves" /\ ~call.returned
    /\ call' = [call EXCEPT !.returned = TRUE,
                            !.result = hasValidMoves(call.board, call.color)]
    /\ UNCHANGED <<rooms, currentRoom, emitted, component>>

NextValid == ApplyHasValidMoves

SpecValid == InitValid /\ [][NextValid]_vars

----------------------------------------------------------------------------
(* Vocabulary of the properties, stated without the handlers' helpers *)

HoldsSeat(s, room) == \E i \in 1..Len(room.players) : room.players[i].id = s

SeatedAs(s, room, color) ==
    \E i \in 1..Len(room.players) :
        room.players[i].id = s /\ room.players[i].color = color

\* the seats of the room are bound to pairwise distinct sockets
DistinctSockets(room) ==
    \A i, j \in 1..Len(room.players) :
        i # j => room.players[i].id # room.players[j].id

\* ... and two seats are Black, then White
WellSeated(room) ==
    /\ DistinctSockets(room)
    /\ Len(room.players) = 2 =>
          room.players[1].color = "black" /\ room.players[2].color = "white"

Other(color) == IF color = "white" THEN "black" ELSE "white"

Compass == ({-1, 0, 1} \X {-1, 0, 1}) \ {<<0, 0>>}

OnBoard(r, c) == r \in 0..7 /\ c \in 0..7

\* (r, c) is Empty and, in some direction, a non-empty contiguous run of the
\* other colour is immediately followed by a cell of `player` inside the board
LegalMove(board, player, r, c) ==
    /\ board[r][c] = "null"
    /\ \E d \in Compass : \E n \in 1..6 :
          /\ \A k \in 1..n : /\ OnBoard(r + k * d[1], c + k * d[2])
                             /\ board[r + k * d[1]][c + k * d[2]] = Other(player)
          /\ OnBoard(r + (n + 1) * d[1], c + (n + 1) * d[2])
          /\ board[r + (n + 1) * d[1]][c + (n + 1) * d[2]] = player

CanMove(board, player) ==
    \E r \in 0..7, c \in 0..7 : LegalMove(board, player, r, c)

LegalMoves(board, player) ==
    {cell \in (0..7) \X (0..7) : LegalMove(board, player, cell[1], cell[2])}

\* white at (3,3),(4,4), black at (3,4),(4,3), every other cell Empty
StandardStart ==
    [r \in 0..7 |-> [c \in 0..7 |->
        CASE <<r, c>> \in {<<3, 3>>, <<4, 4>>} -> "white"
          [] <<r, c>> \in {<<3, 4>>, <<4, 3>>} -> "black"
          [] OTHER -> "null"]]

Events(msgs) == {msgs[i].ev : i \in 1..Len(msgs)}

\* a step in which the stones of Othello room id change: an applied move
Applied(id) ==
    /\ id \in DOMAIN rooms /\ id \in DOMAIN rooms'
    /\ rooms[id].type = "OTHELLO"
    /\ rooms'[id].board # rooms[id].board

----------------------------------------------------------------------------
(* C1..C10 *)

\* C1: a make_move sent by a socket that is not seated with the colour that
\* owns the turn is dropped: the room map is unchanged and nothing is emitted.
\* (Stated for rooms whose seats are bound to distinct sockets.)
C1_MoveOfNonOwnerDropped ==
    [][\A s \in Sockets, id \in RoomIds, cell \in MoveCells :
          ( /\ make_move(s, id, cell[1], cell[2])
            /\ id \in DOMAIN rooms
            /\ WellSeated(rooms[id])
            /\ ~SeatedAs(s, rooms[id], rooms[id].turn) )
          => (rooms' = rooms /\ emitted' = <<>>)]_vars

\* C2: in a Playing Othello room a move on an Empty cell that is not a legal
\* move of the turn owner changes nothing in the room.
\* (Stated for moves sent by the socket seated with the turn owner's colour.)
C2_IllegalMoveNoOp ==
    [][\A s \in Sockets, id \in RoomIds, cell \in MoveCells :
          ( /\ make_move(s, id, cell[1], cell[2])
            /\ id \in DOMAIN rooms
            /\ WellSeated(rooms[id])
            /\ SeatedAs(s, rooms[id], rooms[id].turn)
            /\ rooms[id].type = "OTHELLO"
            /\ rooms[id].status = "PLAYING"
            /\ rooms[id].board[cell[1]][cell[2]] = "null"
            /\ ~LegalMove(rooms[id].board, rooms[id].turn, cell[1], cell[2]) )
          => rooms' = rooms]_vars

\* C3: a room goes from Playing to Aborted only when a socket seated in it
\* disconnects; the disconnect of a socket that holds no seat in the room
\* leaves the room as it is and emits no player_left.
\* (Stated for rooms whose seats are bound to distinct sockets.)
C3_AbortOnlyBySeatHolder ==
    [][\A id \in RoomIds :
          (id \in DOMAIN rooms /\ WellSeated(rooms[id])) =>
             /\ ( /\ rooms[id].status = "PLAYING"
                  /\ id \in DOMAIN rooms'
                  /\ rooms'[id].status = "ABORTED" )
                => \E s \in connected \ DOMAIN currentRoom' : HoldsSeat(s, rooms[id])
             /\ \A s \in connected :
                  (disconnect(s) /\ ~HoldsSeat(s, rooms[id]))
                  => /\ id \in DOMAIN rooms'
                     /\ rooms'[id] = rooms[id]
                     /\ "player_left" \notin Events(emitted')]_vars

\* C4: a room that is Finished or Aborted is never Playing again while it
\* stays in the map.
\* (Stated for steps that keep the seats bound to distinct sockets.)
C4_TerminalStatusStays ==
    [][\A id \in RoomIds :
          ( /\ id \in DOMAIN rooms
            /\ rooms[id].status \in {"FINISHED", "ABORTED"}
            /\ id \in DOMAIN rooms'
            /\ DistinctSockets(rooms'[id]) )
          => rooms'[id].status # "PLAYING"]_vars

\* C5 as stated: every join attempt on a room with two seats is answered
\* with the room-full error, to the joiner only, and changes no room.
\* (Stated for rooms whose seats are bound to distinct sockets, the joiner
\* not among them.)
C5_FullRoomAlwaysRoomFull ==
    [][\A s \in Sockets, id \in RoomIds :
          ( /\ (join_room(s, id) \/ join_puzzle_room(s, id))
            /\ id \in DOMAIN rooms
            /\ WellSeated(rooms[id]) /\ ~HoldsSeat(s, rooms[id])
            /\ Len(rooms[id].players) >= 2 )
          => /\ rooms' = rooms
             /\ emitted' = << Msg({s}, "error_message", "Room is full!") >>]_vars

\* C5 amended: a join attempt on a room with two seats changes no room and
\* is answered with exactly one error, to the joiner only: the room-full
\* error through the entrypoint of the room's game kind, the type-mismatch
\* error through the other entrypoint.
C5_FullRoomJoinRejected ==
    [][\A s \in Sockets, id \in RoomIds :
          (id \in DOMAIN rooms /\ Len(rooms[id].players) >= 2) =>
             /\ join_room(s, id) =>
                  /\ rooms' = rooms
                  /\ emitted' = << Msg({s}, "error_message",
                        IF rooms[id].type = "OTHELLO" THEN "Room is full!"
                        ELSE "Room exists but is not for Othello!") >>
             /\ join_puzzle_room(s, id) =>
                  /\ rooms' = rooms
                  /\ emitted' = << Msg({s}, "error_message",
                        IF rooms[id].type = "PUZZLE" THEN "Room is full!"
                        ELSE "Room exists but is not for Block Puzzle!") >>]_vars

\* a third socket has just been turned away from a room with two seats
C5_Witness ==
    /\ emitted = << Msg({3}, "error_message", "Room is full!") >>
    /\ \E id \in DOMAIN rooms :
          /\ Len(rooms[id].players) = 2 /\ ~HoldsSeat(3, rooms[id])
          /\ currentRoom[3] = id

\* C6: a join to an existing room through the entrypoint of the other game
\* kind is answered with the type-mismatch error, to the joiner only, and
\* changes no room (kind, seats, status, board, turn owner).
C6_WrongKindJoinRejected ==
    [][\A s \in Sockets, id \in RoomIds :
          id \in DOMAIN rooms =>
             /\ (join_room(s, id) /\ rooms[id].type = "PUZZLE") =>
                  /\ rooms' = rooms
                  /\ emitted' = << Msg({s}, "error_message",
                                       "Room exists but is not for Othello!") >>
             /\ (join_puzzle_room(s, id) /\ rooms[id].type = "OTHELLO") =>
                  /\ rooms' = rooms
                  /\ emitted' = << Msg({s}, "error_message",
                                       "Room exists but is not for Block Puzzle!") >>]_vars

\* a puzzle join has just been turned away from an Othello room with a free seat
C6_Witness ==
    /\ Len(emitted) = 1
    /\ emitted[1].data = "Room exists but is not for Block Puzzle!"
    /\ \E id \in DOMAIN rooms :
          /\ rooms[id].type = "OTHELLO" /\ Len(rooms[id].players) = 1
          /\ emitted[1].to \subseteq Subscribers(id, currentRoom)

\* C7: the seats of a room have pairwise distinct colours.
\* (Stated for rooms whose seats are bound to distinct sockets.)
C7_SeatColoursDistinct ==
    \A id \in DOMAIN rooms :
        \A i, j \in 1..Len(rooms[id].players) :
            (i # j /\ rooms[id].players[i].id # rooms[id].players[j].id)
            => rooms[id].players[i].color # rooms[id].players[j].color

\* C8: the seats of a room are bound to pairwise distinct sockets.
C8_SeatSocketsDistinct ==
    \A id \in DOMAIN rooms :
        \A i, j \in 1..Len(rooms[id].players) :
            i # j => rooms[id].players[i].id # rooms[id].players[j].id

\* C9: the first join_room for an unseen roomId creates the room with the
\* standard start, turn owner Black, the joiner seated Black and status
\* Waiting; the next successful join seats the joiner White and makes the
\* status Playing, board and turn owner as at creation.
C9_FirstAndSecondJoin ==
    [][\A s \in Sockets, id \in RoomIds :
          /\ (join_room(s, id) /\ id \notin DOMAIN rooms) =>
                /\ id \in DOMAIN rooms'
                /\ rooms'[id].board = StandardStart
                /\ rooms'[id].turn = "black"
                /\ rooms'[id].players = << [id |-> s, name |-> "Player", color |-> "black"] >>
                /\ rooms'[id].status = "WAITING"
          /\ ( /\ join_room(s, id)
               /\ id \in DOMAIN rooms
               /\ rooms[id].type = "OTHELLO"
               /\ rooms[id].status = "WAITING" ) =>
                /\ Len(rooms[id].players) = 1
                /\ rooms'[id].players = Append(rooms[id].players,
                      [id |-> s, name |-> "Player", color |-> "white"])
                /\ rooms'[id].status = "PLAYING"
                /\ rooms'[id].board = StandardStart
                /\ rooms'[id].turn = "black"]_vars

\* the second seat has just been taken and the game started
C9_Witness ==
    /\ "game_start" \in Events(emitted)
    /\ \E id \in DOMAIN rooms :
          /\ rooms[id].status = "PLAYING"
          /\ rooms[id].board = StandardStart
          /\ Len(rooms[id].players) = 2
          /\ rooms[id].players[1].color = "black"
          /\ rooms[id].players[2].color = "white"
          /\ rooms[id].players[1].id # rooms[id].players[2].id

\* C10: after an applied move, exactly one of: the non-mover has a legal
\* move and owns the turn; the non-mover has none, the mover has one and
\* keeps the turn, and a pass notification is emitted; neither has one and
\* the status is Finished.
C10_TurnResolution ==
    [][\A id \in RoomIds :
          Applied(id) =>
            LET mover   == rooms[id].turn
                board   == rooms'[id].board
                passTo  == /\ rooms'[id].turn = Other(mover)
                           /\ rooms'[id].status = "PLAYING"
                           /\ Events(emitted') = {"update_board"}
                passed  == /\ rooms'[id].turn = mover
                           /\ rooms'[id].status = "PLAYING"
                           /\ Events(emitted') = {"update_board", "notification"}
                over    == /\ rooms'[id].status = "FINISHED"
                           /\ Events(emitted') = {"game_over"}
            IN  /\ rooms[id].status = "PLAYING"
                /\ IF CanMove(board, Other(mover)) THEN passTo
                   ELSE IF CanMove(board, mover) THEN passed
                   ELSE over
                /\ ~(passTo /\ passed) /\ ~(passTo /\ over) /\ ~(passed /\ over)]_vars

\* a move has just left the other colour without a legal move: the pass
\* notification is out and the turn owner can move again
C10_Witness ==
    /\ "notification" \in Events(emitted)
    /\ \E id \in DOMAIN rooms :
          /\ rooms[id].status = "PLAYING"
          /\ ~CanMove(rooms[id].board, Other(rooms[id].turn))
          /\ CanMove(rooms[id].board, rooms[id].turn)

----------------------------------------------------------------------------
(* C11..C20 *)

\* number of cells of an 8x8 board that hold a stone of `color`
Stones(board, color) ==
    Cardinality({cell \in (0..7) \X (0..7) : board[cell[1]][cell[2]] = color})

\* C11: when an Othello room becomes Finished, the game_over message reports
\* as blackScore and whiteScore the stone counts of the final board, and as
\* winner Black if Black has strictly more stones, White if White has
\* strictly more, draw if the counts are equal.
C11_WinnerByStoneCount ==
    [][\A id \in RoomIds :
          ( /\ id \in DOMAIN rooms /\ id \in DOMAIN rooms'
            /\ rooms'[id].type = "OTHELLO"
            /\ rooms[id].status # "FINISHED"
            /\ rooms'[id].status = "FINISHED" )
          => LET b == Stones(rooms'[id].board, "black")
                 w == Stones(rooms'[id].board, "white")
             IN  /\ Len(emitted') = 1
                 /\ emitted'[1].ev = "game_over"
                 /\ emitted'[1].data =
                       [winner |-> CASE b > w -> "black"
                                     [] w > b -> "white"
                                     [] OTHER -> "draw",
                        blackScore |-> b, whiteScore |-> w]]_vars

\* a game has just ended in a draw, 32 stones each
C11_Witness ==
    /\ Len(emitted) = 1 /\ emitted[1].ev = "game_over"
    /\ emitted[1].data.winner = "draw"
    /\ \E id \in DOMAIN rooms :
          /\ rooms[id].status = "FINISHED"
          /\ Stones(rooms[id].board, "black") = 32
          /\ Stones(rooms[id].board, "white") = 32

\* a run of n cells of the other colour leaves (r, c) in direction d and is
\* immediately followed by a cell of `player` inside the board
BracketedRun(board, player, r, c, d, n) ==
    /\ \A k \in 1..n : /\ OnBoard(r + k * d[1], c + k * d[2])
                       /\ board[r + k * d[1]][c + k * d[2]] = Other(player)
    /\ OnBoard(r + (n + 1) * d[1], c + (n + 1) * d[2])
    /\ board[r + (n + 1) * d[1]][c + (n + 1) * d[2]] = player

\* the cells of all such runs, over the 8 directions
Captured(board, player, r, c) ==
    UNION {{<<r + k * x[1][1], c + k * x[1][2]>> : k \in 1..x[2]} :
              x \in {y \in Compass \X (1..6) :
                        BracketedRun(board, player, r, c, y[1], y[2])}}

\* C12: an applied move at (row, col) by the turn owner P changes exactly
\* these cells: (row, col) becomes P, and so does every cell of a contiguous
\* run of the other colour that starts next to (row, col) in one of the 8
\* directions and is immediately followed by a P cell; runs that end at the
\* edge or on an Empty cell, and all other cells, keep their value.
C12_MoveFlipsBracketedRuns ==
    [][\A s \in Sockets, id \in RoomIds, cell \in GameCells \cup MoveCells :
          (make_move(s, id, cell[1], cell[2]) /\ Applied(id)) =>
             LET P     == rooms[id].turn
                 board == rooms[id].board
                 taken == Captured(board, P, cell[1], cell[2])
             IN  /\ board[cell[1]][cell[2]] = "null"
                 /\ rooms'[id].board =
                       [r \in 0..7 |-> [c \in 0..7 |->
                           IF <<r, c>> = cell \/ <<r, c>> \in taken
                           THEN P ELSE board[r][c]]]]_vars

\* White has just ended the late game at (7,0), taking two stones upwards
\* and five to the right in one move
C12_Witness ==
    /\ Events(emitted) = {"game_over"}
    /\ \E id \in DOMAIN rooms :
          /\ rooms[id].status = "FINISHED"
          /\ \A c \in 0..6 : rooms[id].board[7][c] = "white"
          /\ rooms[id].board[6][0] = "white" /\ rooms[id].board[5][0] = "white"
          /\ Stones(rooms[id].board, "white") = 37

\* C13: as long as an Othello room is in the map, no cell that holds a stone
\* becomes Empty, and every step that changes the board (an applied move)
\* increases the number of stones on it by exactly one.
C13_StonesOnlyAdded ==
    [][\A id \in RoomIds :
          ( /\ id \in DOMAIN rooms /\ id \in DOMAIN rooms'
            /\ rooms[id].type = "OTHELLO" ) =>
             LET old == rooms[id].board
                 new == rooms'[id].board
             IN  /\ \A r \in 0..7, c \in 0..7 :
                       old[r][c] # "null" => new[r][c] # "null"
                 /\ new # old =>
                       Stones(new, "black") + Stones(new, "white")
                          = Stones(old, "black") + Stones(old, "white") + 1]_vars

\* four moves have been applied, one of them after a pass
C13_Witness ==
    \E id \in DOMAIN rooms :
        /\ rooms[id].type = "OTHELLO"
        /\ Stones(rooms[id].board, "black") + Stones(rooms[id].board, "white") = 8

\* C14: in a Playing Othello room at the standard start with Black to move,
\* the move at (2,3) of the socket seated Black makes (2,3) and (3,3) Black,
\* keeps every other cell, gives the turn to White and leaves the status
\* Playing (and the seats as they are).
C14_OpeningMove ==
    [][\A s \in Sockets, id \in RoomIds :
          ( /\ make_move(s, id, 2, 3)
            /\ id \in DOMAIN rooms
            /\ rooms[id].type = "OTHELLO"
            /\ rooms[id].status = "PLAYING"
            /\ rooms[id].board = StandardStart
            /\ rooms[id].turn = "black"
            /\ SeatedAs(s, rooms[id], "black") )
          => /\ rooms'[id].board =
                   [r \in 0..7 |-> [c \in 0..7 |->
                       IF <<r, c>> \in {<<2, 3>>, <<3, 3>>} THEN "black"
                       ELSE StandardStart[r][c]]]
             /\ rooms'[id].turn = "white"
             /\ rooms'[id].status = "PLAYING"
             /\ rooms'[id].players = rooms[id].players]_vars

\* the opening move (2,3) has just been applied
C14_Witness ==
    /\ Events(emitted) = {"update_board"}
    /\ \E id \in DOMAIN rooms :
          /\ rooms[id].status = "PLAYING" /\ rooms[id].turn = "white"
          /\ Stones(rooms[id].board, "black") = 4
          /\ Stones(rooms[id].board, "white") = 1
          /\ rooms[id].board[2][3] = "black" /\ rooms[id].board[3][3] = "black"

\* roomId is not in the map, or its room is Waiting, Finished or Aborted
NotInPlay(id) ==
    id \notin DOMAIN rooms \/ rooms[id].status \in {"WAITING", "FINISHED", "ABORTED"}

OfKind(id, kind) == id \in DOMAIN rooms /\ rooms[id].type = kind

\* C15: a make_move or puzzle_move addressed to a roomId that is not in the
\* map, to a room of the other game kind, or to a room that is Waiting,
\* Finished or Aborted changes no room and emits nothing.
C15_MoveToDeadRoomDropped ==
    [][\A s \in MoveSockets, id \in RoomIds :
          /\ \A cell \in OthelloInputs :
                ( /\ (NotInPlay(id) \/ OfKind(id, "PUZZLE"))
                  /\ make_move(s, id, cell[1], cell[2]) )
                => (rooms' = rooms /\ emitted' = <<>>)
          /\ \A in \in PuzzleInputs :
                ( /\ (NotInPlay(id) \/ OfKind(id, "OTHELLO"))
                  /\ puzzle_move(s, id, in[1], in[2], in[3]) )
                => (rooms' = rooms /\ emitted' = <<>>)]_vars

\* a move event has just been dropped by a Finished puzzle room: both seats
\* are still taken and connected, and the last handler emitted nothing
C15_Witness ==
    /\ emitted = <<>>
    /\ connected = {1, 2}
    /\ \E id \in DOMAIN rooms :
          /\ rooms[id].type = "PUZZLE" /\ rooms[id].status = "FINISHED"
          /\ Len(rooms[id].players) = 2
          /\ currentRoom[1] = id /\ currentRoom[2] = id

\* C16: a move whose row or column lies outside the board, or whose hand
\* slot index lies outside the hand, is dropped: the room map is unchanged
\* and no exception is raised.
C16_OutOfRangeMoveDropped ==
    [][\A s \in MoveSockets, id \in RoomIds :
          /\ \A cell \in OthelloInputs :
                ( /\ make_move(s, id, cell[1], cell[2])
                  /\ ~OnBoard(cell[1], cell[2]) )
                => (rooms' = rooms /\ "uncaughtException" \notin Events(emitted'))
          /\ \A in \in PuzzleInputs :
                ( /\ puzzle_move(s, id, in[1], in[2], in[3])
                  /\ (in[1] \notin 0..2 \/ in[2] \notin 0..9 \/ in[3] \notin 0..9) )
                => (rooms' = rooms /\ "uncaughtException" \notin Events(emitted'))]_vars

\* the seats of the room that are not bound to socket s, in seat order
SeatsWithout(room, s) ==
    LET keep == {i \in 1..Len(room.players) : room.players[i].id # s}
        RECURSIVE Pick(_)
        Pick(i) == IF i > Len(room.players) THEN <<>>
                   ELSE IF i \in keep THEN <<room.players[i]>> \o Pick(i + 1)
                   ELSE Pick(i + 1)
    IN  Pick(1)

\* C17: when a socket seated in its current room disconnects, its seat is
\* removed; if the room was Playing the status becomes Aborted and
\* player_left is sent to the sockets that remain in the room, and if the
\* room was Waiting, Finished or Aborted the status stays as it was.
\* (A room that loses its last seat leaves the map; seats and status are
\* then stated for the rooms that stay.)
C17_DisconnectOfSeatHolder ==
    [][\A s \in Sockets, id \in RoomIds :
          ( /\ disconnect(s)
            /\ id \in DOMAIN rooms
            /\ currentRoom[s] = id
            /\ HoldsSeat(s, rooms[id]) )
          => /\ id \in DOMAIN rooms' =>
                   /\ rooms'[id].players = SeatsWithout(rooms[id], s)
                   /\ rooms'[id].status =
                         IF rooms[id].status = "PLAYING" THEN "ABORTED"
                         ELSE rooms[id].status
             /\ rooms[id].status = "PLAYING" =>
                   emitted' = << [to |-> {x \in connected \ {s} : currentRoom[x] = id},
                                  ev |-> "player_left", data |-> ""] >>]_vars

\* a seat holder has just left a Playing room: the other seat remains, the
\* room is Aborted and player_left went to the remaining socket
C17_Witness ==
    /\ Len(emitted) = 1 /\ emitted[1].ev = "player_left" /\ emitted[1].to # {}
    /\ \E id \in DOMAIN rooms :
          /\ rooms[id].status = "ABORTED"
          /\ Len(rooms[id].players) = 1
          /\ emitted[1].to = {rooms[id].players[1].id}

\* C18: a room leaves the map exactly in the step in which a socket whose
\* current room it is disconnects and no seat of another socket is left; a
\* room in the map always has at least one seat.
C18_RoomRemovedWhenEmpty ==
    [][\A id \in RoomIds :
          /\ id \in DOMAIN rooms =>
                ( id \notin DOMAIN rooms'
                  <=> \E s \in connected \ DOMAIN currentRoom' :
                         currentRoom[s] = id /\ SeatsWithout(rooms[id], s) = <<>> )
          /\ id \in DOMAIN rooms' => Len(rooms'[id].players) >= 1]_vars

\* a Finished room is still in the map with the one participant that remains
C18_Witness ==
    \E id \in DOMAIN rooms :
        /\ rooms[id].status = "FINISHED"
        /\ Len(rooms[id].players) = 1
        /\ rooms[id].players[1].id \in connected
        /\ Cardinality(connected) < NumSockets

\* the events that carry the state of a room to its participants
StateBroadcasts ==
    {"game_start", "update_board", "notification", "game_over",
     "puzzle_start", "update_puzzle_state", "puzzle_game_over"}

\* C19: the state broadcasts of a room (start snapshot, board update, pass
\* notice, game over) reach only sockets that hold a seat in the room.
\* (Stated for rooms whose seats are bound to distinct sockets.)
C19_BroadcastsOnlyToSeats ==
    (\A id \in DOMAIN rooms : WellSeated(rooms[id])) =>
        \A i \in 1..Len(emitted) :
            emitted[i].ev \in StateBroadcasts =>
                \A s \in emitted[i].to :
                    \E id \in DOMAIN rooms :
                        currentRoom[s] = id /\ HoldsSeat(s, rooms[id])

\* C20: a puzzle_move sent by a socket that is not seated with the colour
\* that owns the turn is dropped: board, hands, scores, turn owner and status
\* of the room are unchanged.
\* (Stated for rooms whose seats are bound to distinct sockets.)
C20_PuzzleMoveOfNonOwnerDropped ==
    [][\A s \in MoveSockets, id \in RoomIds, in \in PuzzleInputs :
          ( /\ puzzle_move(s, id, in[1], in[2], in[3])
            /\ id \in DOMAIN rooms
            /\ rooms[id].type = "PUZZLE"
            /\ WellSeated(rooms[id])
            /\ ~SeatedAs(s, rooms[id], rooms[id].turn) )
          => /\ rooms'[id].board = rooms[id].board
             /\ rooms'[id].hands = rooms[id].hands
             /\ rooms'[id].scores = rooms[id].scores
             /\ rooms'[id].turn = rooms[id].turn
             /\ rooms'[id].status = rooms[id].status]_vars

----------------------------------------------------------------------------
(* C21..C30 *)

\* the cells a catalog shape covers, as (row, col) offsets from its top
\* left corner
Footprint(id) ==
    CASE id = "I2"   -> {<<0, 0>>, <<0, 1>>}
      [] id = "I2_V" -> {<<0, 0>>, <<1, 0>>}
      [] id = "I3"   -> {<<0, 0>>, <<0, 1>>, <<0, 2>>}
      [] id = "I4"   -> {<<0, 0>>, <<0, 1>>, <<0, 2>>, <<0, 3>>}
      [] id = "SQR2" -> {<<0, 0>>, <<0, 1>>, <<1, 0>>, <<1, 1>>}
      [] id = "SQR3" -> (0..2) \X (0..2)
      [] id = "L3"   -> {<<0, 0>>, <<1, 0>>, <<1, 1>>}
      [] id = "T3_U" -> {<<0, 1>>, <<1, 0>>, <<1, 1>>, <<1, 2>>}

\* every covered cell, offset by (row, col), is inside the n x n board and Empty
Fits(board, cells, row, col, n) ==
    \A x \in cells :
        /\ row + x[1] \in 0..(n - 1) /\ col + x[2] \in 0..(n - 1)
        /\ board[row + x[1]][col + x[2]] = "null"

\* slot i (counted from 0) of the hand exists and holds a shape
Occupied(hand, i) == i \in 0..(Len(hand) - 1) /\ hand[i + 1] # "null"

\* C21: in a Playing puzzle room a puzzle_move that names an empty or
\* non-existent slot of the turn owner's hand, or a shape that cannot be
\* placed at (row, col), is dropped: board, hands, scores, turn owner and
\* status of the room are unchanged (and so are its seats).
C21_UnplaceableMoveDropped ==
    [][\A s \in MoveSockets, id \in RoomIds, in \in PuzzleInputs :
          ( /\ id \in DOMAIN rooms
            /\ rooms[id].type = "PUZZLE"
            /\ rooms[id].status = "PLAYING"
            /\ LET hand == rooms[id].hands[rooms[id].turn]
               IN  \/ ~Occupied(hand, in[1])
                   \/ ~Fits(rooms[id].board, Footprint(hand[in[1] + 1]),
                            in[2], in[3], 10)
            /\ puzzle_move(s, id, in[1], in[2], in[3]) )
          => /\ rooms'[id].board = rooms[id].board
             /\ rooms'[id].hands = rooms[id].hands
             /\ rooms'[id].scores = rooms[id].scores
             /\ rooms'[id].turn = rooms[id].turn
             /\ rooms'[id].status = rooms[id].status
             /\ rooms'[id].players = rooms[id].players]_vars

\* a Playing puzzle room in which shapes lie on the board and slots are used
\* up has just let an event pass without a broadcast: every puzzle_move that
\* names a used slot or a covered cell ends like this
C21_Witness ==
    /\ emitted = <<>>
    /\ connected = {1, 2}
    /\ \E id \in DOMAIN rooms :
          /\ rooms[id].type = "PUZZLE" /\ rooms[id].status = "PLAYING"
          /\ ~Occupied(rooms[id].hands[rooms[id].turn], 0)
          /\ rooms[id].board[0][0] # "null"

\* the entries of a number[][] that are 1, as (row, col) offsets
Ones(matrix) ==
    {x \in (0..(Len(matrix) - 1)) \X (0..(Len(matrix[1]) - 1)) :
        matrix[x[1] + 1][x[2] + 1] = 1}

\* side of the board a canPlace function is written for
BoardSide(fn) == IF fn = "canPlaceSolo" THEN 8 ELSE 10

\* C22: canPlace(board, matrix, row, col) returns true if and only if every
\* filled cell of the matrix, offset by (row, col), lies inside the N x N
\* board (10 on the server, 8 in the solo game) and on an Empty cell; the
\* unfilled cells of the bounding box impose nothing.
C22_CanPlaceIffFilledCellsFit ==
    call.fn \in {"canPlace", "canPlaceSolo"} /\ call.returned =>
        (call.result <=>
            Fits(call.grid, Ones(call.matrix), call.r, call.c, BoardSide(call.fn)))

\* the server's canPlace has accepted L3 at (0,0) although (0,1), the
\* unfilled corner of its bounding box, is taken
C22_Witness ==
    /\ call.fn = "canPlace" /\ call.returned /\ call.result
    /\ call.matrix = << <<1, 0>>, <<1, 1>> >>
    /\ call.r = 0 /\ call.c = 0
    /\ call.grid[0][1] # "null"

\* row r / column c of an n x n board has no Empty cell
FullRow(board, r, n) == \A c \in 0..(n - 1) : board[r][c] # "null"

FullCol(board, c, n) == \A r \in 0..(n - 1) : board[r][c] # "null"

\* C23: in every reachable state of a networked puzzle room, no row and no
\* column of the board is completely filled.
C23_NoFullLineLeft ==
    \A id \in DOMAIN rooms :
        rooms[id].type = "PUZZLE" =>
            \A k \in 0..9 :
                ~FullRow(rooms[id].board, k, 10) /\ ~FullCol(rooms[id].board, k, 10)

\* the fifth I2 on row 0, Black's third, has just completed the row: the
\* move scored 2 + 100 on top of Black's 4, and the row is Empty again
C23_Witness ==
    /\ Events(emitted) = {"update_puzzle_state"}
    /\ \E id \in DOMAIN rooms :
          /\ rooms[id].type = "PUZZLE" /\ rooms[id].status = "PLAYING"
          /\ rooms[id].turn = "white"
          /\ rooms[id].scores.black = 106 /\ rooms[id].scores.white = 4
          /\ \A c \in 0..9 : rooms[id].board[0][c] = "null"

\* the board with the cells of a shape at (row, col) filled in
WithShape(board, cells, row, col, n) ==
    [r \in 0..(n - 1) |-> [c \in 0..(n - 1) |->
        IF <<r - row, c - col>> \in cells THEN "filled" ELSE board[r][c]]]

\* number of completely filled rows and columns of an n x n board
FullLines(board, n) ==
    Cardinality({r \in 0..(n - 1) : FullRow(board, r, n)})
    + Cardinality({c \in 0..(n - 1) : FullCol(board, c, n)})

\* C24: in the solo game no placement is accepted while a full row or
\* column that has been detected is still on the grid: from a state whose
\* grid holds a full line, no step fills a cell (the next change of the grid
\* is the delayed clear), so the clear overwrites no later placement and no
\* full line is scored twice.
C24_NoPlacementBeforeClear ==
    [][(Mounted /\ FullLines(component.grid, 8) > 0) =>
          \A r \in 0..7, c \in 0..7 :
              component'.grid[r][c] # "null" => component.grid[r][c] # "null"]_vars

\* a shape of the solo hand is placed in this step: a held slot becomes empty
SoloPlacement ==
    /\ Mounted
    /\ \E i \in 1..3 : component.hand[i] # "null" /\ component'.hand[i] = "null"

\* number of full rows and columns on the solo grid right after the step
LinesAfter == FullLines(component'.grid, 8)

\* C26: in the solo game a clearing move with line count L adds L to combo
\* (so from combo 0 two clearing moves with L1 then L2 lines give L1, then
\* L1 + L2) and resets the miss streak to zero; a non-clearing move that
\* follows a clearing move leaves combo unchanged and makes the miss streak 1.
C26_ComboAddsLineCount ==
    [][SoloPlacement =>
          /\ LinesAfter > 0 =>
                /\ component'.combo = component.combo + LinesAfter
                /\ component'.movesSinceClear = 0
          /\ (LinesAfter = 0 /\ component.movesSinceClear = 0) =>
                /\ component'.combo = component.combo
                /\ component'.movesSinceClear = 1]_vars

\* a move that completed one row (30 x 1 points, combo 1) has been followed
\* by two misses and by a move that completes rows 0 and 1: combo is 1 + 2
C26_Witness ==
    /\ Mounted
    /\ component.combo = 3 /\ component.movesSinceClear = 0
    /\ Len(component.timers) = 1
    /\ component.timers[1].rows = {0, 1}
    /\ component.score = 54

\* C27: in the solo game combo is reset to zero exactly on the non-clearing
\* move that makes the miss streak exceed the allowance, 2 while combo < 10
\* and 3 while combo >= 10: any other non-clearing move keeps combo and adds
\* one to the miss streak, and no other step lowers combo.
C27_ComboResetAfterAllowance ==
    [][Mounted =>
          LET allowance == IF component.combo >= 10 THEN 3 ELSE 2
              exceeds   == component.movesSinceClear + 1 > allowance
          IN  /\ (SoloPlacement /\ LinesAfter = 0) =>
                    IF exceeds
                    THEN component'.combo = 0 /\ component'.movesSinceClear = 0
                    ELSE /\ component'.combo = component.combo
                         /\ component'.movesSinceClear = component.movesSinceClear + 1
              /\ component'.combo < component.combo =>
                    SoloPlacement /\ LinesAfter = 0 /\ exceeds]_vars

\* the row that took combo from 9 to 10 was followed by I4 at (0,0), (1,0)
\* and (2,0), which combo survived, and by SQR2 at (0,4), the fourth miss:
\* combo is zero
C27_Witness ==
    /\ Mounted
    /\ component.combo = 0 /\ component.movesSinceClear = 0
    /\ component.score = 1750
    /\ component.timers = <<>>
    /\ component.grid[0][0] # "null" /\ component.grid[1][0] # "null"
    /\ component.grid[2][0] # "null" /\ component.grid[1][5] # "null"

\* the grid without its full rows and columns
WithoutFullLines(grid) ==
    [r \in 0..7 |-> [c \in 0..7 |->
        IF FullRow(grid, r, 8) \/ FullCol(grid, c, 8) THEN "null" ELSE grid[r][c]]]

\* number of cells of the solo grid that the step fills
CellsFilled ==
    Cardinality({x \in (0..7) \X (0..7) :
        component.grid[x[1]][x[2]] = "null" /\ component'.grid[x[1]][x[2]] # "null"})

\* C28: in the solo game a move adds the area of the placed shape to the
\* score at once; if it completes L >= 1 lines, the delayed clear adds
\* BASE_SCORES[L] x combo (combo after its increase), plus 300 if and only if
\* the grid is completely empty after the clear; a move that completes no
\* line adds the area and nothing else.
C28_MoveScore ==
    [][Mounted =>
          /\ SoloPlacement =>
                /\ component'.score = component.score + CellsFilled
                /\ IF LinesAfter = 0
                   THEN component'.timers = component.timers
                   ELSE /\ Len(component'.timers) = Len(component.timers) + 1
                        /\ component'.timers[Len(component'.timers)].add =
                              BASE_SCORES[LinesAfter] * component'.combo
                              + (IF WithoutFullLines(component'.grid) = EmptySoloGrid
                                 THEN 300 ELSE 0)
          /\ Len(component'.timers) < Len(component.timers) =>
                /\ component'.score = component.score + component.timers[1].add
                /\ component'.grid = WithoutFullLines(component.timers[1].currentGrid)
          /\ component'.score # component.score =>
                SoloPlacement \/ Len(component'.timers) < Len(component.timers)]_vars

\* the first two shapes completed row 0 and the clear left the grid empty:
\* 4 + 4 for the shapes, 30 x 1 for the row, 300 for the empty grid
C28_Witness ==
    /\ Mounted
    /\ component.score = 338 /\ component.combo = 1
    /\ component.grid = EmptySoloGrid
    /\ component.timers = <<>> /\ component.clearingCells = {}

\* a puzzle_move of room id is accepted in this step: the turn changes hands
Accepted(id) ==
    /\ id \in DOMAIN rooms /\ id \in DOMAIN rooms'
    /\ rooms[id].type = "PUZZLE" /\ rooms[id].status = "PLAYING"
    /\ rooms'[id].turn # rooms[id].turn

\* C25: in a networked puzzle room an accepted move that places a shape of
\* area A and clears L >= 1 lines increases the mover's score by
\* A + BASE_SCORES[L] x combo, for a combo counter that has just been
\* increased by L (so combo >= L).
C25_ClearScoredByComboTable ==
    [][\A s \in MoveSockets, id \in RoomIds, in \in PuzzleInputs :
          (Accepted(id) /\ puzzle_move(s, id, in[1], in[2], in[3])) =>
             LET mover == rooms[id].turn
                 cells == Footprint(rooms[id].hands[mover][in[1] + 1])
                 A     == Cardinality(cells)
                 L     == FullLines(WithShape(rooms[id].board, cells,
                                              in[2], in[3], 10), 10)
                 gain  == rooms'[id].scores[mover] - rooms[id].scores[mover]
             IN  L >= 1 =>
                   \E combo \in L..gain : gain = A + BASE_SCORES[L] * combo]_vars

AllEmpty(hand) == \A i \in 1..Len(hand) : hand[i] = "null"

AllHeld(hand) == \A i \in 1..Len(hand) : hand[i] # "null"

\* what placing the shape of slot i (counted from 0) makes of a hand: the
\* slot is emptied and the others kept, or, if that empties the last held
\* slot, three shapes are dealt
HandAfterUse(old, new, i) ==
    LET used == [old EXCEPT ![i + 1] = "null"]
    IN  /\ Occupied(old, i)
        /\ IF AllEmpty(used) THEN Len(new) = 3 /\ AllHeld(new) ELSE new = used

\* C29: a puzzle hand has exactly 3 slots.  On the server an accepted
\* placement empties exactly the named slot of the mover's hand and, if that
\* leaves no held slot, replaces the hand by 3 dealt shapes in the same
\* step; no other step changes a hand.  In the solo game a placement empties
\* exactly the dragged slot, the refill replaces a hand whose 3 slots are
\* empty by 3 dealt shapes, and no other step changes the hand.  So no held
\* slot is overwritten, and 3 placements from a dealt hand end in one refill.
C29_HandSlots ==
    [][/\ \A id \in RoomIds :
             ( /\ id \in DOMAIN rooms /\ id \in DOMAIN rooms'
               /\ rooms[id].type = "PUZZLE" ) =>
                LET mover == rooms[id].turn
                    old   == rooms[id].hands
                    new   == rooms'[id].hands
                IN  /\ \A color \in {"black", "white"} :
                          Len(old[color]) = 3 /\ Len(new[color]) = 3
                    /\ ~Accepted(id) => new = old
                    /\ Accepted(id) =>
                          /\ new[Other(mover)] = old[Other(mover)]
                          /\ \A s \in MoveSockets, in \in PuzzleInputs :
                                \/ HandAfterUse(old[mover], new[mover], in[1])
                                \/ ~puzzle_move(s, id, in[1], in[2], in[3])
       /\ Mounted =>
             LET old == component.hand
                 new == component'.hand
             IN  /\ Len(old) = 3 /\ Len(new) = 3
                 /\ \/ new = old
                    \/ /\ SoloPlacement
                       /\ component.dragState # <<>>
                       /\ Occupied(old, component.dragState[1])
                       /\ new = [old EXCEPT ![component.dragState[1] + 1] = "null"]
                    \/ AllEmpty(old) /\ AllHeld(new)]_vars

\* Black has placed the shapes of slots 0, 1 and 2, the third completing
\* row 0, and holds three dealt shapes again; White has placed two
C29_Witness ==
    /\ Events(emitted) = {"update_puzzle_state"}
    /\ \E id \in DOMAIN rooms :
          /\ rooms[id].type = "PUZZLE" /\ rooms[id].status = "PLAYING"
          /\ rooms[id].turn = "white"
          /\ rooms[id].scores = [black |-> 106, white |-> 4]
          /\ AllHeld(rooms[id].hands.black)
          /\ Cardinality({i \in 1..3 : rooms[id].hands.white[i] = "null"}) = 2

\* some held shape of the hand fits somewhere on the n x n board
CanPlaceSome(board, hand, n) ==
    \E i \in 0..(Len(hand) - 1) :
        /\ Occupied(hand, i)
        /\ \E r \in 0..(n - 1), c \in 0..(n - 1) :
              Fits(board, Footprint(hand[i + 1]), r, c, n)

\* C30: right after an accepted placement in a networked puzzle room (its
\* clear and any refill of the mover's hand included), if no held shape of
\* the other seat's hand fits anywhere on the board, the status is Finished
\* and puzzle_game_over names the mover as winner, whatever the scores are;
\* otherwise the status stays Playing.
C30_StalemateEndsGame ==
    [][\A id \in RoomIds :
          Accepted(id) =>
             LET mover == rooms[id].turn
                 next  == rooms'[id]
             IN  IF CanPlaceSome(next.board, next.hands[Other(mover)], 10)
                 THEN /\ next.status = "PLAYING"
                      /\ Events(emitted') = {"update_puzzle_state"}
                 ELSE /\ next.status = "FINISHED"
                      /\ Len(emitted') = 1
                      /\ emitted'[1].ev = "puzzle_game_over"
                      /\ emitted'[1].data.winner = mover]_vars

\* White's SQR3 at (7,7) has just left Black's SQR3 without a place: the
\* room is Finished and White has won without being ahead on score
C30_Witness ==
    /\ Len(emitted) = 1 /\ emitted[1].ev = "puzzle_game_over"
    /\ emitted[1].data.winner = "white"
    /\ \E id \in DOMAIN rooms :
          /\ rooms[id].type = "PUZZLE" /\ rooms[id].status = "FINISHED"
          /\ rooms[id].scores.white <= rooms[id].scores.black
          /\ ~CanPlaceSome(rooms[id].board, rooms[id].hands.black, 10)

----------------------------------------------------------------------------
(* C31..C40 *)

\* the payload (slot, row, col) names a held shape of the turn owner's hand
\* that fits on the board of the Playing puzzle room id
Placeable(id, slot, row, col) ==
    /\ id \in DOMAIN rooms
    /\ rooms[id].type = "PUZZLE" /\ rooms[id].status = "PLAYING"
    /\ LET hand == rooms[id].hands[rooms[id].turn]
       IN  /\ Occupied(hand, slot)
           /\ Fits(rooms[id].board, Footprint(hand[slot + 1]), row, col, 10)

\* C31: in a networked puzzle room a puzzle_move whose shape is held and
\* fits (an accepted placement) hands the turn to the other colour, also
\* when it ends the game; any other puzzle_move (a dropped move) leaves the
\* turn owner as it is.
C31_PlacementEndsTurn ==
    [][\A id \in RoomIds :
          (id \in DOMAIN rooms /\ rooms[id].type = "PUZZLE") =>
             \A s \in MoveSockets, in \in PuzzleInputs :
                \/ /\ id \in DOMAIN rooms'
                   /\ IF Placeable(id, in[1], in[2], in[3])
                      THEN rooms'[id].turn = Other(rooms[id].turn)
                      ELSE rooms'[id].turn = rooms[id].turn
                \/ ~puzzle_move(s, id, in[1], in[2], in[3])]_vars

\* the first placement of a game: Black's shape lies on the board, nobody
\* else has scored, and the turn is White's
C31_Witness ==
    /\ Events(emitted) = {"update_puzzle_state"}
    /\ \E id \in DOMAIN rooms :
          /\ rooms[id].type = "PUZZLE" /\ rooms[id].status = "PLAYING"
          /\ rooms[id].turn = "white"
          /\ rooms[id].scores = [black |-> 2, white |-> 0]
          /\ Cardinality({x \in (0..9) \X (0..9) :
                             rooms[id].board[x[1]][x[2]] = "black"}) = 2
          /\ AllHeld(rooms[id].hands.white)

\* C32: an accepted placement in a networked puzzle room raises the mover's
\* score by at least the number of cells of the placed shape, whether or not
\* a line is cleared, and leaves the score and the hand of the other seat
\* unchanged.
C32_PlacementScoresArea ==
    [][\A id \in RoomIds :
          (id \in DOMAIN rooms /\ rooms[id].type = "PUZZLE") =>
             \A s \in MoveSockets, in \in PuzzleInputs :
                \/ ~Placeable(id, in[1], in[2], in[3])
                \/ /\ id \in DOMAIN rooms'
                   /\ LET mover == rooms[id].turn
                          A     == Cardinality(
                                       Footprint(rooms[id].hands[mover][in[1] + 1]))
                          old   == rooms[id]
                          new   == rooms'[id]
                      IN  /\ new.scores[mover] >= old.scores[mover] + A
                          /\ new.scores[Other(mover)] = old.scores[Other(mover)]
                          /\ new.hands[Other(mover)] = old.hands[Other(mover)]
                \/ ~puzzle_move(s, id, in[1], in[2], in[3])]_vars

\* three placements without a clear: Black has scored two shapes of two
\* cells, White one, and each hand lacks exactly the shapes its owner placed
C32_Witness ==
    /\ Events(emitted) = {"update_puzzle_state"}
    /\ \E id \in DOMAIN rooms :
          /\ rooms[id].type = "PUZZLE" /\ rooms[id].status = "PLAYING"
          /\ rooms[id].turn = "white"
          /\ rooms[id].scores = [black |-> 4, white |-> 2]
          /\ Cardinality({i \in 1..3 : rooms[id].hands.black[i] = "null"}) = 2
          /\ Cardinality({i \in 1..3 : rooms[id].hands.white[i] = "null"}) = 1

\* C33: two join events addressed to different roomIds, from open connections
\* (the same one or two), processed in either order from any state of the
\* server, leave the same room maps, and a disconnect of any connection that
\* follows leaves the same room maps after either order.
C33_DifferentRoomsCommute ==
    \A e1, e2 \in JoinEvents :
        (e1.roomId # e2.roomId /\ e1.s \in connected /\ e2.s \in connected) =>
            LET a == After(After({ServerState}, e1), e2)
                b == After(After({ServerState}, e2), e1)
            IN  /\ {st.rooms : st \in a} = {st.rooms : st \in b}
                /\ \A s \in connected :
                       {Disconnected(st, s).rooms : st \in a}
                           = {Disconnected(st, s).rooms : st \in b}

\* C34: hasValidMoves(board, player) returns true if and only if some Empty
\* cell has, in at least one of the 8 directions, a non-empty contiguous run
\* of cells of the other colour immediately followed by a cell of player
\* inside the board; an occupied cell never counts.
C34_HasValidMovesIffLegalMove ==
    call.fn = "hasValidMoves" /\ call.returned =>
        (call.result <=>
            \E r \in 0..7, c \in 0..7 : LegalMove(call.board, call.color, r, c))

\* hasValidMoves has returned false for Black on a board with Empty cells:
\* the only bracketed White run, (0,1) between Black (0,0) and Black (0,2),
\* starts from an occupied cell, and the White run (6,6), (7,7) next to the
\* Empty (5,5) ends at the corner
C34_Witness ==
    /\ call.fn = "hasValidMoves" /\ call.returned /\ ~call.result
    /\ call.color = "black"
    /\ call.board[0][0] = "black" /\ call.board[0][1] = "white"
    /\ call.board[0][2] = "black" /\ call.board[0][3] = "null"
    /\ call.board[6][6] = "white" /\ call.board[7][7] = "white"
    /\ call.board[5][5] = "null"

\* C35: after a connection has disconnected, no room of the room map has a
\* seat bound to it, also when the connection has sent join events for more
\* than one roomId; so a room all of whose joiners have disconnected is no
\* longer in the map.
\* (Connections do not reconnect: a socket that is not connected has
\* disconnected.)
C35_NoSeatOfDisconnected ==
    \A id \in DOMAIN rooms :
        /\ \A i \in 1..Len(rooms[id].players) : rooms[id].players[i].id \in connected
        /\ \E s \in connected : HoldsSeat(s, rooms[id])

\* C36: in every reachable state where an Othello room is Playing, the turn
\* owner has at least one legal move on the room's board.
\* (Stated for rooms whose seats are bound to distinct sockets.)
C36_TurnOwnerCanMove ==
    \A id \in DOMAIN rooms :
        ( /\ rooms[id].type = "OTHELLO" /\ rooms[id].status = "PLAYING"
          /\ DistinctSockets(rooms[id]) ) =>
            CanMove(rooms[id].board, rooms[id].turn)

\* C37: in every reachable state where a networked puzzle room is Playing,
\* at least one held shape of the turn owner's hand fits somewhere on the
\* board.
\* (Stated for rooms whose seats are bound to distinct sockets.)
C37_TurnOwnerCanPlace ==
    \A id \in DOMAIN rooms :
        ( /\ rooms[id].type = "PUZZLE" /\ rooms[id].status = "PLAYING"
          /\ DistinctSockets(rooms[id]) ) =>
            CanPlaceSome(rooms[id].board, rooms[id].hands[rooms[id].turn], 10)

\* number of Empty cells of an Othello board
Empties(board) == Stones(board, "null")

\* C38: an Othello room accepts at most 60 moves: every step that changes
\* the board of the room leaves one Empty cell less than before, on a cell
\* that was Empty (the standard start has 60), and a room whose board has no
\* Empty cell does not have, or get, the status Playing.
\* (Stated for steps that keep the seats bound to distinct sockets.)
C38_AtMostSixtyMoves ==
    [][\A id \in RoomIds :
          ( /\ id \in DOMAIN rooms /\ id \in DOMAIN rooms'
            /\ rooms[id].type = "OTHELLO"
            /\ DistinctSockets(rooms'[id]) )
          => /\ Applied(id) =>
                   /\ Empties(rooms'[id].board) = Empties(rooms[id].board) - 1
                   /\ \A r \in 0..7, c \in 0..7 :
                         rooms[id].board[r][c] # "null" =>
                            rooms'[id].board[r][c] # "null"
             /\ Empties(rooms'[id].board) = 0 => rooms'[id].status # "PLAYING"]_vars

\* C39: in the networked puzzle client, once the client of a socket seated
\* in a Playing puzzle room has handled the server's messages up to
\* puzzle_start, its status is PLAYING, and if its colour owns the turn it
\* is able to start a drag: the client status does not remain WAITING while
\* the server room is Playing.
C39_ClientPlaysAfterStart ==
    \A id \in DOMAIN rooms, s \in connected :
        ( /\ Online
          /\ rooms[id].type = "PUZZLE" /\ rooms[id].status = "PLAYING"
          /\ WellSeated(rooms[id]) /\ HoldsSeat(s, rooms[id])
          /\ component.clients[s].heard = emitted
          /\ \E i \in 1..Len(emitted) :
                emitted[i].ev = "puzzle_start" /\ s \in emitted[i].to )
        => /\ component.clients[s].status = "PLAYING"
           /\ SeatedAs(s, rooms[id], rooms[id].turn) =>
                 canStartDrag(component.clients[s])

\* C40: client-side hinting and server-side enforcement agree: for the board
\* of every Playing Othello room hasValidMoves(board, p) is true exactly
\* when getValidMoves(board, p) is not empty, and a make_move of the turn
\* owner at a cell is applied if and only if getValidMoves(board, turn
\* owner) contains that cell.
\* (Stated for rooms whose two seats are bound to distinct sockets, Black
\* then White.)
C40_ClientAndServerAgree ==
    [][\A id \in RoomIds :
          ( /\ id \in DOMAIN rooms /\ id \in DOMAIN rooms'
            /\ rooms[id].type = "OTHELLO" /\ rooms[id].status = "PLAYING"
            /\ WellSeated(rooms[id]) )
          => LET board == rooms[id].board
                 hints == getValidMoves(board, rooms[id].turn)
             IN  /\ \A p \in {"black", "white"} :
                       hasValidMoves(board, p) <=> getValidMoves(board, p) # <<>>
                 /\ \A s \in Sockets, cell \in MoveCells :
                       \/ ~SeatedAs(s, rooms[id], rooms[id].turn)
                       \/ (rooms'[id].board # board) <=>
                             (\E i \in 1..Len(hints) :
                                 hints[i] = [r |-> cell[1], c |-> cell[2]])
                       \/ ~make_move(s, id, cell[1], cell[2])]_vars

====
